---- MODULE Spec2Model ----
(***************************************************************************)
(* A model of the Monitor Monkey agent's collection-and-dispatch engine:   *)
(*   - the shared process-sample store (package events: CollectProcesses,  *)
(*     GetProcessesJSON, ClearProcessData) with the tasks of main.go that  *)
(*     use it (collectProcessData, sendProcessesEvent(s));                 *)
(*   - the custom alert monitor (package custom: loadAlerts,               *)
(*     parseAlertFile, parseInterval, sendAllAlerts, checkAlerts);         *)
(*   - main.go itself: the deferred recover of main, its startup, its      *)
(*     heartbeat loop with the two slow tickers, the dispatch functions,   *)
(*     and helpers.CheckEndpoint.                                          *)
(* Durations and instants are integers counting milliseconds.              *)
(***************************************************************************)
EXTENDS Integers, Sequences, FiniteSets, TLC

(***************************************************************************)
(* Bounds of the model.                                                    *)
(***************************************************************************)
\* topN handed to CollectProcesses (main.go passes 10; a small value keeps
\* provider outputs longer than topN enumerable)
TopN == 2
\* longest ps output (data lines after the header)
MaxLines == 3
\* largest metric value (CPU percent or resident KB) a ps line carries
MaxVal == 1
\* number of CollectProcesses calls made in one run
MaxCollections == 2
\* number of sendProcessesEvents tasks running at the same time
MaxSends == 1
\* most lines of an alert definition file
MaxFileLines == 3
\* clock steps between two ticks of the alert ticker
StepsPerTick == 2
\* minutes of clock time the alert monitor is followed for
MaxMinutes == 5
\* minutes of clock time the 5-minute scenario is followed for
ScenarioMinutes == 7
\* calls of main() by the deferred function that are told apart
MaxRestarts == 2
\* dispatch tasks of one kind in flight that are counted (the bound stands
\* for itself and for every larger number)
MaxInFlight == 1
\* minutes of clock time the loop of main is followed for
MaxLoopMinutes == 2
\* the largest value of a traffic counter: uint64 is followed as a counter
\* that wraps after MaxCounter
MaxCounter == 3

(***************************************************************************)
(* State of package events and of the tasks of main.go that use it.        *)
(***************************************************************************)
VARIABLES
    topCPUProcesses,   \* the stored CPU table: [cid, rows], cid 0 = nil slice
    topMemProcesses,   \* the stored memory table
    processDataMutex,  \* the task holding the mutex, or NoHolder
    cpc,               \* collector task -> position inside CollectProcesses
    cloc,              \* collector task -> locals of its call, and how the last call failed
    nextCid,           \* number of CollectProcesses calls started so far
    completed,         \* ids of the CollectProcesses calls that returned nil
    spc,               \* sender task -> position inside sendProcessesEvents
    sloc,              \* sender task -> what its two dispatches read and got
    mainpc,            \* position of main around its startup collection
    lastWrite          \* metric -> the last store write by a task of the store's own
                       \* specifications ("init", "clear", "empty", "rows")

(***************************************************************************)
(* State of one AlertMonitor, of its alerts directory and of the clock.    *)
(***************************************************************************)
VARIABLES
    dir,               \* path -> what the path holds in the alerts directory
    alerts,            \* am.alerts: path -> AlertDefinition
    apc,               \* position of the monitor: Start, loadAlerts, checkAlerts
    ret,               \* the caller loadAlerts returns to: "sendAll" or "check"
    files,             \* loadAlerts: the globbed paths not yet parsed
    lastSentTimes,     \* loadAlerts: path -> LastSent saved from the old table
    newAlerts,         \* loadAlerts: the table being built
    clock,             \* time.Now(), in milliseconds since the agent started
    tickAt,            \* the instant of the ticker's next tick (0: no ticker yet)
    tickPending,       \* a tick waits in ticker.C
    sentCount,         \* path -> number of sendAlert tasks launched for it
    lastDispatch,      \* path -> instant of the last dispatch (ZeroTime: none)
    dropped,           \* path -> a reload left it out since its last dispatch
    createdAt,         \* path -> instant the definition was created (ZeroTime: none)
    editedSinceGlob,   \* the directory changed since the last Glob
    cleanLoads         \* reloads completed in a row (2: two or more) on the directory as it is

(***************************************************************************)
(* A second caller of loadAlerts on the same AlertMonitor.                 *)
(***************************************************************************)
VARIABLES
    rpc,               \* position of the second caller inside loadAlerts
    rSaved             \* its lastSentTimes

(***************************************************************************)
(* State of main, of its supervisor and of the goroutines it launches.     *)
(***************************************************************************)
VARIABLES
    mpc,               \* position of main
    flagsDefined,      \* flag.CommandLine holds the flags of main
    restarts,          \* times the deferred function called main() again (up to MaxRestarts)
    config,            \* per list (Disks, Services) the one in use: "unset",
                       \* "default", or "custom" / "empty" sent by the collector
    ticks,             \* ticker of main -> its channel holds a tick
    inflight,          \* kind of dispatch -> tasks launched and not returned (up to MaxInFlight)
    launched,          \* the dispatches launched in this turn of the loop
    dueAtPoll,         \* the tickers whose tick waited when this turn polled or skipped the poll
    boot,              \* what this call of main launched before its loop
    hb,                \* outcome of the last heartbeat request
    collectors,        \* collectProcessData goroutines running
    monitors,          \* monitorAlerts goroutines running
    lastLoop,          \* the background loop that handled a tick last
    process,           \* "running", or the goroutine whose panic ended the process
    stale              \* metric -> the stored table was there when main last restarted

(***************************************************************************)
(* One invocation at a time of each dispatch function.                     *)
(***************************************************************************)
VARIABLES
    dtask              \* dispatch function -> position, POSTs issued, response status, what it logged

(***************************************************************************)
(* helpers.CheckEndpoint and the loop of main that calls it.               *)
(***************************************************************************)
VARIABLES
    endpoint,          \* the string handed to CheckEndpoint, as url.Parse sees it
    ep,                \* the call of CheckEndpoint: position, i, dials made, seconds slept, result
    calls,             \* calls of CheckEndpoint main has made
    isAlive            \* isAlive of main

(***************************************************************************)
(* The waits of main in its loop, and the stop channel of the monitor.     *)
(***************************************************************************)
VARIABLES
    wakeAt,            \* the instant the wait of main ends: its sleep, or the timeout of its request
    stopChan           \* am.stopChan: "open" or "closed"

(***************************************************************************)
(* The traffic counters of main.                                           *)
(***************************************************************************)
VARIABLES
    net                \* Upload, Download: what GetNetStats returned last;
                       \* UploadInterval, DownloadInterval: as in the last mesure;
                       \* oldUpload, oldDownload

storeVars == <<topCPUProcesses, topMemProcesses, processDataMutex, cpc, cloc,
               nextCid, completed, spc, sloc, mainpc, lastWrite>>

alertVars == <<dir, alerts, apc, ret, files, lastSentTimes, newAlerts, clock, tickAt,
               tickPending, sentCount, lastDispatch, dropped, createdAt,
               editedSinceGlob, cleanLoads>>

reloadVars == <<rpc, rSaved>>

agentVars == <<mpc, flagsDefined, restarts, config, ticks, inflight, launched,
               dueAtPoll, boot, hb, collectors, monitors, lastLoop, process, stale>>

dispatchVars == <<dtask>>

endpointVars == <<endpoint, ep, calls, isAlive>>

waitVars == <<wakeAt, stopChan>>

netVars == <<net>>

vars == <<storeVars, alertVars, reloadVars, agentVars, dispatchVars, endpointVars, waitVars,
          netVars>>

\* what the actions of one part of the agent leave alone
outsideStore == <<alertVars, reloadVars, agentVars, dispatchVars, endpointVars, waitVars,
                  netVars>>
outsideAlerts == <<storeVars, reloadVars, agentVars, dispatchVars, endpointVars, waitVars,
                   netVars>>
outsideReload == <<storeVars, agentVars, dispatchVars, endpointVars, waitVars,
                   netVars>>
outsideDispatch == <<storeVars, alertVars, reloadVars, agentVars, endpointVars, waitVars,
                     netVars>>
outsideEndpoint == <<storeVars, alertVars, reloadVars, agentVars, dispatchVars, waitVars,
                     netVars>>
\* main and its goroutines write the two tables and am.alerts
tables == <<topCPUProcesses, topMemProcesses>>
outsideNet == <<processDataMutex, cpc, cloc, nextCid, completed, spc, sloc, mainpc, lastWrite,
                dir, apc, ret, files, lastSentTimes, newAlerts, clock, tickAt,
                tickPending, sentCount, lastDispatch, dropped, createdAt,
                editedSinceGlob, cleanLoads, reloadVars, dispatchVars, endpointVars>>
outsideWaits == <<outsideNet, netVars>>
outsideAgent == <<outsideWaits, waitVars>>

Collectors == {"main", "collector"}
Senders == 1..MaxSends
Metrics == {"cpu", "mem"}

\* a nil slice
NilTable == [cid |-> 0, rows |-> <<>>]

(***************************************************************************)
(* The process provider: the output of `ps axo pid,user,%cpu,rss,comm      *)
(* --sort=-KEY`.  A data line either splits into fewer than five fields    *)
(* ("short"), has a numeric field that does not parse ("badnum"), or is    *)
(* well formed ("ok") and carries a pid and the value of the sort key.     *)
(***************************************************************************)
PsLines ==
    {[kind |-> "short", pid |-> 0, val |-> 0], [kind |-> "badnum", pid |-> 0, val |-> 0]}
    \cup {[kind |-> "ok", pid |-> 1, val |-> v] : v \in 0..MaxVal}

SeqsUpTo(S, n) == UNION {[1..k -> S] : k \in 0..n}

\* the well-formed lines of an output, in order
RECURSIVE OkVals(_)
OkVals(lines) ==
    IF lines = <<>> THEN <<>>
    ELSE IF Head(lines).kind = "ok" THEN <<Head(lines).val>> \o OkVals(Tail(lines))
    ELSE OkVals(Tail(lines))

Descending(vals) == \A i \in 1..Len(vals) - 1 : vals[i] >= vals[i + 1]

\* ps sorts its rows by the key, descending; lines it garbles can sit anywhere
PsBodies == {b \in SeqsUpTo(PsLines, MaxLines) : Descending(OkVals(b))}

HeaderLine == [kind |-> "header", pid |-> 0, val |-> 0]

\* what one run of ps gives: whether it started, what it printed (nothing, or
\* the header line followed by data lines) and whether cmd.Wait reported an
\* error
PsRuns ==
    {[started |-> FALSE, out |-> <<>>, waitErr |-> FALSE]}
    \cup {[started |-> TRUE, out |-> <<>>, waitErr |-> w] : w \in BOOLEAN}
    \cup {[started |-> TRUE, out |-> <<HeaderLine>> \o b, waitErr |-> w] :
            b \in PsBodies, w \in BOOLEAN}

\* (mutant) the scan loop with `count <= topN`
RECURSIVE ScanLoopOffByOne(_, _, _, _)
ScanLoopOffByOne(lines, count, stats, topN) ==
    IF lines = <<>> \/ ~(count <= topN) THEN [stats |-> stats, count |-> count]
    ELSE IF Head(lines).kind # "ok"
         THEN ScanLoopOffByOne(Tail(lines), count, stats, topN)
         ELSE ScanLoopOffByOne(Tail(lines), count + 1,
                       Append(stats, [pid |-> Head(lines).pid, val |-> Head(lines).val]),
                       topN)

\* the scan loop: `for scanner.Scan() && count < topN`
RECURSIVE ScanLoop(_, _, _, _)
ScanLoop(lines, count, stats, topN) ==
    IF lines = <<>> \/ ~(count < topN) THEN [stats |-> stats, count |-> count]
    ELSE IF Head(lines).kind # "ok"
         THEN ScanLoop(Tail(lines), count, stats, topN)
         ELSE ScanLoop(Tail(lines), count + 1,
                       Append(stats, [pid |-> Head(lines).pid, val |-> Head(lines).val]),
                       topN)

\* getTopProcessesPS(metric, topN) on one run of ps: the first line read is
\* dropped as the header, then the loop runs on the rest; an error of
\* cmd.Wait counts only when no row was read
getTopProcessesPS(run, topN) ==
    IF ~run.started THEN [err |-> TRUE, stats |-> <<>>]
    ELSE LET body == IF run.out = <<>> THEN <<>> ELSE Tail(run.out)
             r == ScanLoop(body, 0, <<>>, topN)
         IN IF run.waitErr /\ r.count = 0 THEN [err |-> TRUE, stats |-> <<>>]
            ELSE [err |-> FALSE, stats |-> r.stats]

(***************************************************************************)
(* processDataMutex                                                        *)
(***************************************************************************)
NoHolder == [kind |-> "none", id |-> 0]
CollectorTask(t) == [kind |-> t, id |-> 0]
SenderTask(s) == [kind |-> "sender", id |-> s]

\* (mutant) Lock that never waits
CanLockNoMutex(t) == TRUE

\* processDataMutex.Lock() returns only while no task holds the mutex
CanLock(t) == processDataMutex = NoHolder

\* processDataMutex.Unlock() by task t
Unlocked(t) == IF processDataMutex = t THEN NoHolder ELSE processDataMutex

(***************************************************************************)
(* CollectProcesses(topN), called by main at startup and by the            *)
(* collectProcessData task (once at its start, then on every tick).        *)
(***************************************************************************)
\* err: "none", or the query whose failure made the last call return an error
NoCall == [cid |-> 0, cpuStats |-> <<>>, memStats |-> <<>>, err |-> "none", writes |-> 0]

\* entry: the CPU query
CollectQueryCPU(t, run) ==
    /\ cpc[t] = "idle"
    /\ nextCid < MaxCollections
    /\ t = "main" => mainpc = "start"
    /\ nextCid' = nextCid + 1
    /\ LET r == getTopProcessesPS(run, TopN) IN
        IF r.err
        THEN /\ cloc' = [cloc EXCEPT ![t] = [NoCall EXCEPT !.err = "cpu"]]
             /\ cpc' = cpc
             /\ mainpc' = IF t = "main" THEN "loop" ELSE mainpc
        ELSE /\ cloc' = [cloc EXCEPT ![t] = [NoCall EXCEPT !.cid = nextCid + 1, !.cpuStats = r.stats]]
             /\ cpc' = [cpc EXCEPT ![t] = "mem"]
             /\ mainpc' = mainpc
    /\ UNCHANGED <<topCPUProcesses, topMemProcesses, processDataMutex, completed,
                   spc, sloc, lastWrite>>
    /\ UNCHANGED outsideStore

\* (mutant) a memory query whose failure empties the store
CollectQueryMemClearing(t, run) ==
    /\ cpc[t] = "mem"
    /\ LET r == getTopProcessesPS(run, TopN) IN
        IF r.err
        THEN /\ cloc' = [cloc EXCEPT ![t] = [NoCall EXCEPT !.err = "mem"]]
             /\ cpc' = [cpc EXCEPT ![t] = "idle"]
             /\ mainpc' = IF t = "main" THEN "loop" ELSE mainpc
             /\ topCPUProcesses' = NilTable
             /\ topMemProcesses' = NilTable
        ELSE /\ cloc' = [cloc EXCEPT ![t].memStats = r.stats]
             /\ cpc' = [cpc EXCEPT ![t] = "lock"]
             /\ mainpc' = mainpc
             /\ UNCHANGED <<topCPUProcesses, topMemProcesses>>
    /\ UNCHANGED <<processDataMutex, completed, nextCid, spc, sloc, lastWrite>>
    /\ UNCHANGED outsideStore

\* the memory query
CollectQueryMem(t, run) ==
    /\ cpc[t] = "mem"
    /\ LET r == getTopProcessesPS(run, TopN) IN
        IF r.err
        THEN /\ cloc' = [cloc EXCEPT ![t] = [NoCall EXCEPT !.err = "mem"]]
             /\ cpc' = [cpc EXCEPT ![t] = "idle"]
             /\ mainpc' = IF t = "main" THEN "loop" ELSE mainpc
        ELSE /\ cloc' = [cloc EXCEPT ![t].memStats = r.stats]
             /\ cpc' = [cpc EXCEPT ![t] = "lock"]
             /\ mainpc' = mainpc
    /\ UNCHANGED <<topCPUProcesses, topMemProcesses, processDataMutex, completed,
                   nextCid, spc, sloc, lastWrite>>
    /\ UNCHANGED outsideStore

WriteKind(rows) == IF rows = <<>> THEN "empty" ELSE "rows"

\* processDataMutex.Lock(); topCPUProcesses = cpuStats
CollectStoreCPU(t) ==
    /\ cpc[t] = "lock"
    /\ CanLock(CollectorTask(t))
    /\ processDataMutex' = CollectorTask(t)
    /\ topCPUProcesses' = [cid |-> cloc[t].cid, rows |-> cloc[t].cpuStats]
    /\ lastWrite' = [lastWrite EXCEPT !["cpu"] = WriteKind(cloc[t].cpuStats)]
    /\ cloc' = [cloc EXCEPT ![t].writes = 1]
    /\ cpc' = [cpc EXCEPT ![t] = "store"]
    /\ UNCHANGED <<topMemProcesses, completed, nextCid, spc, sloc, mainpc>>
    /\ UNCHANGED outsideStore

\* topMemProcesses = memStats; return nil (the deferred Unlock runs)
CollectStoreMem(t) ==
    /\ cpc[t] = "store"
    /\ topMemProcesses' = [cid |-> cloc[t].cid, rows |-> cloc[t].memStats]
    /\ lastWrite' = [lastWrite EXCEPT !["mem"] = WriteKind(cloc[t].memStats)]
    /\ processDataMutex' = Unlocked(CollectorTask(t))
    /\ completed' = completed \cup {cloc[t].cid}
    /\ cloc' = [cloc EXCEPT ![t] = NoCall]
    /\ cpc' = [cpc EXCEPT ![t] = "idle"]
    /\ mainpc' = IF t = "main" THEN "launch" ELSE mainpc
    /\ UNCHANGED <<topCPUProcesses, nextCid, spc, sloc>>
    /\ UNCHANGED outsideStore

(***************************************************************************)
(* GetProcessesJSON(metric): under the mutex, the "no data collected yet"  *)
(* error when the table is empty, else the table (marshalled).             *)
(***************************************************************************)
StoredTable(metric) == IF metric = "cpu" THEN topCPUProcesses ELSE topMemProcesses

\* (mutant) GetProcessesJSON without the emptiness test
GetProcessesJSONUnchecked(metric) == [err |-> FALSE, table |-> StoredTable(metric)]

GetProcessesJSON(metric) ==
    IF Len(StoredTable(metric).rows) = 0
    THEN [err |-> TRUE, table |-> NilTable]
    ELSE [err |-> FALSE, table |-> StoredTable(metric)]

(***************************************************************************)
(* sendProcessesEvents: sendProcessesEvent("cpu"), sendProcessesEvent      *)
(* ("mem"), then ClearProcessData.  A task is launched by main with `go`.  *)
(***************************************************************************)
NoDispatch == [got |-> "none", cid |-> 0]
NoSend == [cpu |-> NoDispatch, mem |-> NoDispatch]

\* (mutant) sendProcessesEvents that clears right after the CPU event
AfterEventSkipMem(metric) == "clear"

\* where sendProcessesEvents goes once sendProcessesEvent(metric) returned
AfterEvent(metric) == IF metric = "cpu" THEN "mem_get" ELSE "clear"

\* sendProcessesEvent(metric) up to the request: events.GetProcessesJSON
SendGet(s, metric) ==
    /\ spc[s] = metric \o "_get"
    /\ CanLock(SenderTask(s))
    /\ LET r == GetProcessesJSON(metric) IN
        /\ sloc' = [sloc EXCEPT ![s][metric] =
                      [got |-> IF r.err THEN "nodata" ELSE "read", cid |-> r.table.cid]]
        /\ spc' = [spc EXCEPT ![s] = IF r.err THEN AfterEvent(metric) ELSE metric \o "_post"]
    /\ UNCHANGED <<topCPUProcesses, topMemProcesses, processDataMutex, cpc, cloc,
                   nextCid, completed, mainpc, lastWrite>>
    /\ UNCHANGED outsideStore

\* client.Do(req) and the classification of its outcome
HttpOutcomes == {"transport_error", "status_2xx", "status_other"}

SendPost(s, metric, outcome) ==
    /\ spc[s] = metric \o "_post"
    /\ sloc' = [sloc EXCEPT ![s][metric].got = outcome]
    /\ spc' = [spc EXCEPT ![s] = AfterEvent(metric)]
    /\ UNCHANGED <<topCPUProcesses, topMemProcesses, processDataMutex, cpc, cloc,
                   nextCid, completed, mainpc, lastWrite>>
    /\ UNCHANGED outsideStore

\* ClearProcessData: Lock; topCPUProcesses = nil
ClearCPU(s) ==
    /\ spc[s] = "clear"
    /\ CanLock(SenderTask(s))
    /\ processDataMutex' = SenderTask(s)
    /\ topCPUProcesses' = NilTable
    /\ lastWrite' = [lastWrite EXCEPT !["cpu"] = "clear"]
    /\ spc' = [spc EXCEPT ![s] = "clear_mem"]
    /\ UNCHANGED <<topMemProcesses, cpc, cloc, nextCid, completed, sloc, mainpc>>
    /\ UNCHANGED outsideStore

\* topMemProcesses = nil; the deferred Unlock
ClearMem(s) ==
    /\ spc[s] = "clear_mem"
    /\ topMemProcesses' = NilTable
    /\ lastWrite' = [lastWrite EXCEPT !["mem"] = "clear"]
    /\ processDataMutex' = Unlocked(SenderTask(s))
    /\ spc' = [spc EXCEPT ![s] = "off"]
    /\ sloc' = [sloc EXCEPT ![s] = NoSend]
    /\ UNCHANGED <<topCPUProcesses, cpc, cloc, nextCid, completed, mainpc>>
    /\ UNCHANGED outsideStore

(***************************************************************************)
(* main: after its startup collection succeeded it launches one            *)
(* sendProcessesEvents task; in its loop it launches one more per tick of  *)
(* processesTicker.                                                        *)
(***************************************************************************)
Idle == {s \in Senders : spc[s] = "off"}

LaunchSend ==
    /\ mainpc \in {"launch", "loop"}
    /\ Idle # {}
    /\ spc' = [spc EXCEPT ![CHOOSE s \in Idle : \A u \in Idle : s <= u] = "cpu_get"]
    /\ mainpc' = "loop"
    /\ UNCHANGED <<topCPUProcesses, topMemProcesses, processDataMutex, cpc, cloc,
                   nextCid, completed, sloc, lastWrite>>
    /\ UNCHANGED outsideStore

(***************************************************************************)
(* Package custom.  Text is a sequence of one-character strings; a         *)
(* duration is an integer number of milliseconds.                          *)
(***************************************************************************)
\* const MinAlertInterval = time.Minute
MinAlertInterval == 60000

Digits == {"0", "1", "2", "3", "4", "5", "6", "7", "8", "9"}

DigitVal(c) ==
    CASE c = "0" -> 0 [] c = "1" -> 1 [] c = "2" -> 2 [] c = "3" -> 3 [] c = "4" -> 4
      [] c = "5" -> 5 [] c = "6" -> 6 [] c = "7" -> 7 [] c = "8" -> 8 [] c = "9" -> 9

\* strings.HasSuffix, strings.TrimSuffix, strings.HasPrefix
HasSuffix(s, suf) ==
    Len(s) >= Len(suf) /\ SubSeq(s, Len(s) - Len(suf) + 1, Len(s)) = suf

TrimSuffix(s, suf) == IF HasSuffix(s, suf) THEN SubSeq(s, 1, Len(s) - Len(suf)) ELSE s

HasPrefix(s, pre) == Len(s) >= Len(pre) /\ SubSeq(s, 1, Len(pre)) = pre

\* strings.Trim(s, c): every leading and trailing c removed
RECURSIVE TrimLeft(_, _)
TrimLeft(s, c) == IF s # <<>> /\ Head(s) = c THEN TrimLeft(Tail(s), c) ELSE s

RECURSIVE TrimRight(_, _)
TrimRight(s, c) ==
    IF s # <<>> /\ s[Len(s)] = c THEN TrimRight(SubSeq(s, 1, Len(s) - 1), c) ELSE s

Trim(s, c) == TrimRight(TrimLeft(s, c), c)

\* leadingInt of package time: the value of the leading digits and the rest
RECURSIVE LeadingInt(_, _)
LeadingInt(s, v) ==
    IF s # <<>> /\ Head(s) \in Digits
    THEN LeadingInt(Tail(s), v * 10 + DigitVal(Head(s)))
    ELSE [v |-> v, rest |-> s]

\* the unit of a duration term: the characters up to the next '.' or digit
RECURSIVE UnitLen(_)
UnitLen(s) ==
    IF s = <<>> \/ Head(s) = "." \/ Head(s) \in Digits THEN 0 ELSE 1 + UnitLen(Tail(s))

\* unitMap of package time, in milliseconds (ns, us and µs are below the
\* model's resolution and no text of the model uses them)
UnitMap ==
    [u \in {<<"m", "s">>, <<"s">>, <<"m">>, <<"h">>} |->
        CASE u = <<"m", "s">> -> 1 [] u = <<"s">> -> 1000
          [] u = <<"m">> -> 60000 [] u = <<"h">> -> 3600000]

\* time.ParseDuration, the loop over the terms `[0-9]*(\.[0-9]*)?[a-z]+`:
\* d is the sum so far, li and lf what leadingInt and leadingFraction read
NoDuration == [ok |-> FALSE, d |-> 0]

RECURSIVE DurationTerms(_, _)

\* the unit (the first n characters of rest) and the term's value
AfterUnit(d, li, lf, post, fracLen, rest, n) ==
    IF n = 0 \/ SubSeq(rest, 1, n) \notin DOMAIN UnitMap THEN NoDuration
    ELSE DurationTerms(SubSeq(rest, n + 1, Len(rest)),
                       d + li.v * UnitMap[SubSeq(rest, 1, n)]
                         + (IF post THEN (lf.v * UnitMap[SubSeq(rest, 1, n)]) \div (10 ^ fracLen)
                            ELSE 0))

\* `if !pre && !post { return error }`, then the unit
AfterFraction(s, d, li, dot, afterDot, lf) ==
    LET pre == Len(li.rest) # Len(s)
        post == dot /\ Len(lf.rest) # Len(afterDot)
        rest == IF dot THEN lf.rest ELSE li.rest
    IN IF ~pre /\ ~post THEN NoDuration
       ELSE AfterUnit(d, li, lf, post, Len(afterDot) - Len(lf.rest), rest, UnitLen(rest))

\* the '.' and the digits after it
AfterLeading(s, d, li) ==
    LET dot == li.rest # <<>> /\ Head(li.rest) = "."
        afterDot == IF dot THEN Tail(li.rest) ELSE li.rest
    IN AfterFraction(s, d, li, dot, afterDot, LeadingInt(afterDot, 0))

DurationTerms(s, d) ==
    IF s = <<>> THEN [ok |-> TRUE, d |-> d]
    ELSE IF ~(Head(s) = "." \/ Head(s) \in Digits) THEN NoDuration
    ELSE AfterLeading(s, d, LeadingInt(s, 0))

\* `if neg { return -Duration(d) }`
Signed(neg, r) == IF ~r.ok THEN r ELSE [ok |-> TRUE, d |-> IF neg THEN 0 - r.d ELSE r.d]

\* time.ParseDuration: `[-+]?` then "0" or one or more terms
ParseDuration(s) ==
    LET signed == s # <<>> /\ Head(s) \in {"-", "+"}
        body == IF signed THEN Tail(s) ELSE s
    IN IF body = <<"0">> THEN [ok |-> TRUE, d |-> 0]
       ELSE IF body = <<>> THEN NoDuration
       ELSE Signed(signed /\ Head(s) = "-", DurationTerms(body, 0))

\* what Sscanf("%d") makes of the digits li read off body
Scanned(neg, body, li) ==
    IF Len(li.rest) = Len(body) THEN [ok |-> FALSE, v |-> 0]
    ELSE [ok |-> TRUE, v |-> IF neg THEN 0 - li.v ELSE li.v]

\* parseInt: fmt.Sscanf(val, "%d", &result) reads an optional sign and the
\* leading digits; what follows them is left unread
parseInt(val) ==
    LET signed == val # <<>> /\ Head(val) \in {"-", "+"}
        body == IF signed THEN Tail(val) ELSE val
    IN Scanned(signed /\ Head(val) = "-", body, LeadingInt(body, 0))

\* the branch of parseInterval's if/else-if chain that the suffix picks (the
\* first that matches, in the order ms, s, m, h|hr|hrs, d) and the text it
\* hands to time.ParseDuration or, for d, to parseInt
SuffixBranch(interval) ==
    IF HasSuffix(interval, <<"m", "s">>)
    THEN [kind |-> "duration", text |-> TrimSuffix(interval, <<"m", "s">>) \o <<"m", "s">>]
    ELSE IF HasSuffix(interval, <<"s">>)
    THEN [kind |-> "duration", text |-> TrimSuffix(interval, <<"s">>) \o <<"s">>]
    ELSE IF HasSuffix(interval, <<"m">>)
    THEN [kind |-> "duration", text |-> TrimSuffix(interval, <<"m">>) \o <<"m">>]
    ELSE IF \/ HasSuffix(interval, <<"h">>)
            \/ HasSuffix(interval, <<"h", "r">>)
            \/ HasSuffix(interval, <<"h", "r", "s">>)
    THEN [kind |-> "duration",
          text |-> TrimSuffix(TrimSuffix(TrimSuffix(interval, <<"h", "r", "s">>),
                                         <<"h", "r">>), <<"h">>) \o <<"h">>]
    ELSE IF HasSuffix(interval, <<"d">>)
    THEN [kind |-> "days", text |-> TrimSuffix(interval, <<"d">>)]
    ELSE [kind |-> "none", text |-> <<>>]

\* the texts time.ParseDuration is tried on, in order: the branch's, then
\* (`return time.ParseDuration(interval)`) the whole interval
Attempts(b, interval) == IF b.kind = "duration" THEN <<b.text, interval>> ELSE <<interval>>

RECURSIVE FirstParsed(_)

\* `if d, err := time.ParseDuration(..); err == nil { return d, nil }`
OrNext(texts, r) == IF r.ok \/ Len(texts) = 1 THEN r ELSE FirstParsed(Tail(texts))

\* the first attempt that parses, else the error of the last
FirstParsed(texts) == OrNext(texts, ParseDuration(Head(texts)))

\* the d branch when parseInt reads a number, else the attempts
WithDays(interval, b, days) ==
    IF b.kind = "days" /\ days.ok
    THEN [ok |-> TRUE, d |-> days.v * 24 * 3600000]
    ELSE FirstParsed(Attempts(b, interval))

WithBranch(interval, b) == WithDays(interval, b, parseInt(b.text))

parseInterval(interval) == WithBranch(interval, SuffixBranch(interval))

(***************************************************************************)
(* Alert definition files.  A line is blank or a '#' comment ("comment"),  *)
(* has no '=' ("text"), or splits at its first '=' into a trimmed key and  *)
(* a trimmed raw value ("kv").                                             *)
(***************************************************************************)
Comment == [kind |-> "comment", key |-> "", val |-> <<>>]
Text == [kind |-> "text", key |-> "", val |-> <<>>]
KV(k, v) == [kind |-> "kv", key |-> k, val |-> v]

\* what a path holds: a file with its lines, or nothing (os.ReadFile fails)
File(lines) == [exists |-> TRUE, lines |-> lines]
Absent == [exists |-> FALSE, lines |-> <<>>]

\* alert.Data before a data line is read
NilData == [type |-> "nil", text |-> <<>>]

\* strconv.Atoi accepts an optional sign and digits
IsInt(v) ==
    LET body == IF v # <<>> /\ Head(v) \in {"-", "+"} THEN Tail(v) ELSE v
    IN body # <<>> /\ \A i \in 1..Len(body) : body[i] \in Digits

\* strconv.ParseFloat on the decimal texts of the model: digits around one '.'
IsFloat(v) ==
    LET body == IF v # <<>> /\ Head(v) \in {"-", "+"} THEN Tail(v) ELSE v
    IN /\ \E i \in 1..Len(body) : body[i] \in Digits
       /\ \A i \in 1..Len(body) : body[i] \in Digits \cup {"."}
       /\ Cardinality({i \in 1..Len(body) : body[i] = "."}) <= 1

\* the type inference of a data value
DataOf(valueRaw) ==
    IF HasPrefix(valueRaw, <<"\"">>) /\ HasSuffix(valueRaw, <<"\"">>)
    THEN [type |-> "string", text |-> Trim(valueRaw, "\"")]
    ELSE IF IsInt(valueRaw) THEN [type |-> "int", text |-> valueRaw]
    ELSE IF IsFloat(valueRaw) THEN [type |-> "float", text |-> valueRaw]
    ELSE [type |-> "string", text |-> valueRaw]

\* the zero time.Time of a fresh AlertDefinition
ZeroTime == -1

\* the largest time.Duration: Time.Sub saturates at it
MaxDuration == 2147483647

NewAlert(path) ==
    [Path |-> path, Name |-> <<>>, Interval |-> 0, Data |-> NilData, LastSent |-> ZeroTime]

\* (mutant) the interval taken as parsed, without the minimum
ClampIntervalMissing(interval) == interval

\* `if interval < MinAlertInterval { interval = MinAlertInterval }`
ClampInterval(interval) == IF interval < MinAlertInterval THEN MinAlertInterval ELSE interval

\* the validation of the required fields at the end of parseAlertFile
Validate(alert) ==
    IF alert.Name = <<>> THEN [err |-> "missing name field", alert |-> alert]
    ELSE IF alert.Interval = 0 THEN [err |-> "missing or invalid interval field", alert |-> alert]
    ELSE IF alert.Data = NilData THEN [err |-> "missing data field", alert |-> alert]
    ELSE [err |-> "none", alert |-> alert]

\* case "interval": the error of parseInterval, or the clamped interval
SetInterval(alert, r) ==
    IF ~r.ok THEN [err |-> "invalid interval format", alert |-> alert]
    ELSE [err |-> "none", alert |-> [alert EXCEPT !.Interval = ClampInterval(r.d)]]

\* the switch on the key of a key=value line: the alert with the field set,
\* or the error parseAlertFile returns at once
SwitchKey(line, alert) ==
    IF line.key = "name"
    THEN [err |-> "none", alert |-> [alert EXCEPT !.Name = Trim(line.val, "\"")]]
    ELSE IF line.key = "interval"
    THEN SetInterval(alert, parseInterval(Trim(line.val, "\"")))
    ELSE IF line.key = "data"
    THEN [err |-> "none", alert |-> [alert EXCEPT !.Data = DataOf(line.val)]]
    ELSE [err |-> "none", alert |-> alert]

\* how the loop goes on after the switch
Switched(r) ==
    [do |-> IF r.err = "none" THEN "continue" ELSE "return", err |-> r.err, alert |-> r.alert]

\* one turn of the loop over the lines, i counting them from 0: "continue",
\* "break" or "return" (the error of SwitchKey)
LineStep(line, i, alert) ==
    IF line.kind = "comment" THEN [do |-> "continue", err |-> "none", alert |-> alert]
    ELSE IF i >= 3 /\ alert.Name # <<>> /\ alert.Interval # 0 /\ alert.Data # NilData
    THEN [do |-> "break", err |-> "none", alert |-> alert]
    ELSE IF line.kind = "text" THEN [do |-> "continue", err |-> "none", alert |-> alert]
    ELSE Switched(SwitchKey(line, alert))

RECURSIVE ParseLoop(_, _, _)

AfterLine(lines, i, alert, r) ==
    IF r.do = "continue" THEN ParseLoop(lines, i + 1, r.alert)
    ELSE IF r.do = "break" THEN Validate(alert)
    ELSE [err |-> r.err, alert |-> alert]

\* `for i, line := range lines`, then the validation
ParseLoop(lines, i, alert) ==
    IF i >= Len(lines) THEN Validate(alert)
    ELSE AfterLine(lines, i, alert, LineStep(lines[i + 1], i, alert))

\* parseAlertFile(path) on the content the path has when it is read
parseAlertFile(path, content) ==
    IF ~content.exists THEN [err |-> "failed to read file", alert |-> NewAlert(path)]
    ELSE ParseLoop(content.lines, 0, NewAlert(path))

(***************************************************************************)
(* The AlertMonitor: Start (loadAlerts, sendAllAlerts, go monitorAlerts)   *)
(* and, on every tick, checkAlerts (loadAlerts, then the due alerts).      *)
(***************************************************************************)
\* the *.mm paths of the alerts directory, in the order Glob lists them
PathSeq == <<"a.mm", "cpu.mm">>
Paths == {PathSeq[i] : i \in 1..Len(PathSeq)}

EmptyTable == [p \in {} |-> NewAlert(p)]

\* filepath.Glob(alertsDir/*.mm): the paths that exist, in order
RECURSIVE GlobFrom(_, _)
GlobFrom(d, i) ==
    IF i > Len(PathSeq) THEN <<>>
    ELSE IF d[PathSeq[i]].exists THEN <<PathSeq[i]>> \o GlobFrom(d, i + 1)
    ELSE GlobFrom(d, i + 1)

Glob(d) == GlobFrom(d, 1)

\* now.Sub(t), saturating for the zero time
Sub(now, t) == IF t = ZeroTime THEN MaxDuration ELSE now - t

\* (mutant) the due test with > in place of >=
DueStrict(alert, now) == Sub(now, alert.LastSent) > alert.Interval

\* (mutant) a check that takes every alert of the table as due
DueEveryCheck(alert, now) == TRUE

\* `now.Sub(alert.LastSent) >= alert.Interval`
Due(alert, now) == Sub(now, alert.LastSent) >= alert.Interval

\* Start: MkdirAll, then loadAlerts up to its Glob
Start ==
    /\ apc = "start"
    /\ files' = Glob(dir)
    /\ editedSinceGlob' = FALSE
    /\ ret' = "sendAll"
    /\ apc' = "snapshot"
    /\ UNCHANGED <<dir, alerts, lastSentTimes, newAlerts, clock, tickAt, tickPending,
                   sentCount, lastDispatch, dropped, createdAt, cleanLoads>>
    /\ UNCHANGED outsideAlerts

\* (mutant) a checkAlerts that goes to its due test without the reload
TickReceiveNoReload ==
    /\ apc = "wait"
    /\ tickPending
    /\ tickPending' = FALSE
    /\ editedSinceGlob' = FALSE
    /\ ret' = "check"
    /\ apc' = "check"
    /\ UNCHANGED <<dir, alerts, files, lastSentTimes, newAlerts, clock, tickAt,
                   sentCount, lastDispatch, dropped, createdAt, cleanLoads>>
    /\ UNCHANGED outsideAlerts

\* monitorAlerts receives a tick: checkAlerts, loadAlerts up to its Glob
TickReceive ==
    /\ apc = "wait"
    /\ tickPending
    /\ tickPending' = FALSE
    /\ files' = Glob(dir)
    /\ editedSinceGlob' = FALSE
    /\ ret' = "check"
    /\ apc' = "snapshot"
    /\ UNCHANGED <<dir, alerts, lastSentTimes, newAlerts, clock, tickAt,
                   sentCount, lastDispatch, dropped, createdAt, cleanLoads>>
    /\ UNCHANGED outsideAlerts

\* loadAlerts: the timestamps of the old table, saved under the mutex
Snapshot ==
    /\ apc = "snapshot"
    /\ lastSentTimes' = [p \in DOMAIN alerts |-> alerts[p].LastSent]
    /\ newAlerts' = EmptyTable
    /\ apc' = "parse"
    /\ UNCHANGED <<dir, alerts, ret, files, clock, tickAt, tickPending,
                   sentCount, lastDispatch, dropped, createdAt, editedSinceGlob, cleanLoads>>
    /\ UNCHANGED outsideAlerts

\* (mutant) a loaded alert that does not take over the saved timestamp
WithLastSentFresh(alert, saved) == alert

\* (mutant) a loaded alert that takes over a saved timestamp whatever its path
WithLastSentAnyPath(alert, saved) ==
    IF alert.Path \in DOMAIN saved THEN [alert EXCEPT !.LastSent = saved[alert.Path]]
    ELSE IF DOMAIN saved # {}
    THEN [alert EXCEPT !.LastSent = saved[CHOOSE p \in DOMAIN saved : TRUE]]
    ELSE alert

\* `if lastSent, exists := lastSentTimes[file]; exists { alert.LastSent = lastSent }`
WithLastSent(alert, saved) ==
    IF alert.Path \in DOMAIN saved THEN [alert EXCEPT !.LastSent = saved[alert.Path]]
    ELSE alert

\* (mutant) a parse error that makes loadAlerts give up what it has loaded
AddParsedOrAbort(table, saved, path, r) ==
    IF r.err # "none" THEN EmptyTable
    ELSE [p \in DOMAIN table \cup {path} |->
             IF p = path THEN WithLastSent(r.alert, saved) ELSE table[p]]

\* `if err != nil { continue }`, else newAlerts[file] = alert
AddParsed(table, saved, path, r) ==
    IF r.err # "none" THEN table
    ELSE [p \in DOMAIN table \cup {path} |->
             IF p = path THEN WithLastSent(r.alert, saved) ELSE table[p]]

\* the table once one more file was handled
Loaded(table, saved, path, content) ==
    AddParsed(table, saved, path, parseAlertFile(path, content))

\* loadAlerts: one turn of `for _, file := range files`
ParseFile ==
    /\ apc = "parse"
    /\ files # <<>>
    /\ newAlerts' = Loaded(newAlerts, lastSentTimes, Head(files), dir[Head(files)])
    /\ files' = Tail(files)
    /\ UNCHANGED <<dir, alerts, apc, ret, lastSentTimes, clock, tickAt, tickPending,
                   sentCount, lastDispatch, dropped, createdAt, editedSinceGlob, cleanLoads>>
    /\ UNCHANGED outsideAlerts

\* (mutant) the new entries are added to the table in use
SwapMerging ==
    /\ apc = "parse"
    /\ files = <<>>
    /\ alerts' = [p \in DOMAIN alerts \cup DOMAIN newAlerts |->
                      IF p \in DOMAIN newAlerts THEN newAlerts[p] ELSE alerts[p]]
    /\ dropped' = [p \in Paths |->
                      dropped[p] \/ (lastDispatch[p] # ZeroTime /\ p \notin DOMAIN newAlerts)]
    /\ cleanLoads' = IF editedSinceGlob THEN 0 ELSE IF cleanLoads = 0 THEN 1 ELSE 2
    /\ apc' = ret
    /\ UNCHANGED <<dir, ret, files, lastSentTimes, newAlerts, clock, tickAt, tickPending,
                   sentCount, lastDispatch, createdAt, editedSinceGlob>>
    /\ UNCHANGED outsideAlerts

\* loadAlerts: am.alerts = newAlerts, and the return to the caller
Swap ==
    /\ apc = "parse"
    /\ files = <<>>
    /\ alerts' = newAlerts
    /\ dropped' = [p \in Paths |->
                      dropped[p] \/ (lastDispatch[p] # ZeroTime /\ p \notin DOMAIN newAlerts)]
    /\ cleanLoads' = IF editedSinceGlob THEN 0 ELSE IF cleanLoads = 0 THEN 1 ELSE 2
    /\ apc' = ret
    /\ UNCHANGED <<dir, ret, files, lastSentTimes, newAlerts, clock, tickAt, tickPending,
                   sentCount, lastDispatch, createdAt, editedSinceGlob>>
    /\ UNCHANGED outsideAlerts

\* the alerts a pass dispatches (go am.sendAlert) and stamps with `now`
Dispatch(due, now) ==
    /\ alerts' = [p \in DOMAIN alerts |->
                     IF p \in due THEN [alerts[p] EXCEPT !.LastSent = now] ELSE alerts[p]]
    /\ sentCount' = [p \in Paths |-> IF p \in due THEN sentCount[p] + 1 ELSE sentCount[p]]
    /\ lastDispatch' = [p \in Paths |-> IF p \in due THEN now ELSE lastDispatch[p]]
    /\ dropped' = [p \in Paths |-> IF p \in due THEN FALSE ELSE dropped[p]]

\* sendAllAlerts: every loaded alert
SendAllSet(table) == DOMAIN table

\* sendAllAlerts, then `go am.monitorAlerts()`, which creates the ticker
SendAll ==
    /\ apc = "sendAll"
    /\ Dispatch(SendAllSet(alerts), clock)
    /\ tickAt' = clock + MinAlertInterval
    /\ apc' = "wait"
    /\ UNCHANGED <<dir, ret, files, lastSentTimes, newAlerts, clock, tickPending,
                   createdAt, editedSinceGlob, cleanLoads>>
    /\ UNCHANGED outsideAlerts

\* checkAlerts after its reload: now := time.Now(), then the due alerts
Check ==
    /\ apc = "check"
    /\ Dispatch({p \in DOMAIN alerts : Due(alerts[p], clock)}, clock)
    /\ apc' = "wait"
    /\ UNCHANGED <<dir, ret, files, lastSentTimes, newAlerts, clock, tickAt, tickPending,
                   createdAt, editedSinceGlob, cleanLoads>>
    /\ UNCHANGED outsideAlerts

(***************************************************************************)
(* loadAlerts called by a second goroutine while the monitor runs (a       *)
(* second Start on the same AlertMonitor does so from its monitorAlerts).  *)
(* It locks the mutex for the snapshot, unlocks it for the parsing, and    *)
(* locks it again for the swap.                                            *)
(***************************************************************************)
\* `for _, file := range files` from first to last, on the directory d
RECURSIVE LoadAll(_, _, _, _)
LoadAll(table, saved, paths, d) ==
    IF paths = <<>> THEN table
    ELSE LoadAll(Loaded(table, saved, Head(paths), d[Head(paths)]), saved, Tail(paths), d)

ReloadSnapshot ==
    /\ rpc = "idle"
    /\ rSaved' = [p \in DOMAIN alerts |-> alerts[p].LastSent]
    /\ rpc' = "parse"
    /\ UNCHANGED <<alertVars, outsideReload>>

ReloadSwap ==
    /\ rpc = "parse"
    /\ alerts' = LoadAll(EmptyTable, rSaved, Glob(dir), dir)
    /\ rpc' = "idle"
    /\ rSaved' = [p \in {} |-> ZeroTime]
    /\ UNCHANGED <<dir, apc, ret, files, lastSentTimes, newAlerts, clock, tickAt,
                   tickPending, sentCount, lastDispatch, dropped, createdAt,
                   editedSinceGlob, cleanLoads>>
    /\ UNCHANGED outsideReload

(***************************************************************************)
(* Time and the ticker of monitorAlerts (period MinAlertInterval; a tick   *)
(* that finds ticker.C full is dropped).                                   *)
(***************************************************************************)
TimeStep == MinAlertInterval \div StepsPerTick

\* the clock moves on by step, up to limit
AdvanceTime(step, limit) ==
    /\ clock + step <= limit
    /\ clock' = clock + step
    /\ IF tickAt # 0 /\ clock + step >= tickAt
       THEN tickPending' = TRUE /\ tickAt' = tickAt + MinAlertInterval
       ELSE UNCHANGED <<tickPending, tickAt>>
    /\ UNCHANGED <<dir, alerts, apc, ret, files, lastSentTimes, newAlerts,
                   sentCount, lastDispatch, dropped, createdAt, editedSinceGlob, cleanLoads>>
    /\ UNCHANGED outsideAlerts

\* the monitor has nothing to do until the next tick
Waiting == apc = "wait" /\ ~tickPending

(***************************************************************************)
(* The alerts directory, written by the host's users.                      *)
(***************************************************************************)
Quoted(text) == <<"\"">> \o text \o <<"\"">>

\* cpu.mm of the scenario: name="cpu-high", interval="5m", data=87.5
CpuMm ==
    File(<<KV("name", Quoted(<<"c", "p", "u">>)),
           KV("interval", Quoted(<<"5", "m">>)),
           KV("data", <<"8", "7", ".", "5">>)>>)

\* an interval below the minimum
FastMm ==
    File(<<Comment, KV("name", <<"f", "a", "s", "t">>), KV("interval", <<"3", "0", "s">>),
           KV("data", <<"1">>)>>)

\* no data line
NoDataMm == File(<<KV("name", <<"n">>), KV("interval", <<"5", "m">>)>>)

AlertFiles == {CpuMm, FastMm, NoDataMm}

\* what the users of the model keep at each path
Contents(p) == IF p = "cpu.mm" THEN {CpuMm, NoDataMm, Absent} ELSE {FastMm, Absent}

\* a path is written, replaced or removed
EditFile(p, c) ==
    /\ dir[p] # c
    /\ dir' = [dir EXCEPT ![p] = c]
    /\ editedSinceGlob' = TRUE
    /\ cleanLoads' = 0
    /\ UNCHANGED <<alerts, apc, ret, files, lastSentTimes, newAlerts, clock, tickAt,
                   tickPending, sentCount, lastDispatch, dropped, createdAt>>
    /\ UNCHANGED outsideAlerts

\* a definition file is created at a path that never held one
CreateFile(p, c) ==
    /\ ~dir[p].exists
    /\ createdAt[p] = ZeroTime
    /\ dir' = [dir EXCEPT ![p] = c]
    /\ createdAt' = [createdAt EXCEPT ![p] = clock]
    /\ editedSinceGlob' = TRUE
    /\ cleanLoads' = 0
    /\ UNCHANGED <<alerts, apc, ret, files, lastSentTimes, newAlerts, clock, tickAt,
                   tickPending, sentCount, lastDispatch, dropped>>
    /\ UNCHANGED outsideAlerts

\* the file at path p is renamed to path q, replacing what q held; one
\* rename at a time: the next one waits for a reload to have seen this one
Rename(p, q) ==
    /\ p # q
    /\ cleanLoads >= 1
    /\ dir[p].exists
    /\ dir' = [dir EXCEPT ![p] = Absent, ![q] = dir[p]]
    /\ createdAt' = [createdAt EXCEPT ![p] = ZeroTime, ![q] = clock]
    /\ editedSinceGlob' = TRUE
    /\ cleanLoads' = 0
    /\ UNCHANGED <<alerts, apc, ret, files, lastSentTimes, newAlerts, clock, tickAt,
                   tickPending, sentCount, lastDispatch, dropped>>
    /\ UNCHANGED outsideAlerts

\* the lines of the files parseAlertFile is tried on
IntervalTexts == {<<"5", "m">>, <<"3", "0", "s">>, <<"0", "s">>, <<"-", "5", "s">>, <<"x">>}

FileLines ==
    {Comment, Text, KV("name", Quoted(<<"c", "p", "u">>)), KV("data", <<"8", "7", ".", "5">>)}
    \cup {KV("interval", t) : t \in IntervalTexts}

AllFiles == {File(l) : l \in SeqsUpTo(FileLines, MaxFileLines)}

\* NewAlertMonitor, with the directory as the agent finds it
MonitorInit(dirs) ==
    /\ dir \in dirs
    /\ alerts = EmptyTable
    /\ apc = "start"
    /\ ret = "sendAll"
    /\ files = <<>>
    /\ lastSentTimes = [p \in {} |-> ZeroTime]
    /\ newAlerts = EmptyTable
    /\ clock = 0
    /\ tickAt = 0
    /\ tickPending = FALSE
    /\ sentCount = [p \in Paths |-> 0]
    /\ lastDispatch = [p \in Paths |-> ZeroTime]
    /\ dropped = [p \in Paths |-> FALSE]
    /\ createdAt = [p \in Paths |-> IF dir[p].exists THEN 0 ELSE ZeroTime]
    /\ editedSinceGlob = FALSE
    /\ cleanLoads = 0
    /\ rpc = "idle"
    /\ rSaved = [p \in {} |-> ZeroTime]

MonitorNext ==
    \/ Start
    \/ TickReceive
    \/ Snapshot
    \/ ParseFile
    \/ Swap
    \/ SendAll
    \/ Check

StoreInit ==
    /\ topCPUProcesses = NilTable
    /\ topMemProcesses = NilTable
    /\ processDataMutex = NoHolder
    /\ cpc = [t \in Collectors |-> "idle"]
    /\ cloc = [t \in Collectors |-> NoCall]
    /\ nextCid = 0
    /\ completed = {}
    /\ spc = [s \in Senders |-> "off"]
    /\ sloc = [s \in Senders |-> NoSend]
    /\ mainpc = "start"
    /\ lastWrite = [m \in Metrics |-> "init"]

\* the outcome classes of one run of ps: not started, nothing read and an
\* error of cmd.Wait, nothing read and no error, one row read
StoreRuns ==
    {r \in PsRuns : /\ Len(r.out) <= 2
                    /\ \A i \in 1..Len(r.out) :
                          r.out[i] \in {HeaderLine, [kind |-> "ok", pid |-> 1, val |-> MaxVal]}}

StoreNext(runs) ==
    \/ \E t \in Collectors, run \in runs : CollectQueryCPU(t, run)
    \/ \E t \in Collectors, run \in runs : CollectQueryMem(t, run)
    \/ \E t \in Collectors : CollectStoreCPU(t)
    \/ \E t \in Collectors : CollectStoreMem(t)
    \/ \E s \in Senders, m \in Metrics : SendGet(s, m)
    \/ \E s \in Senders, m \in Metrics, o \in HttpOutcomes : SendPost(s, m, o)
    \/ \E s \in Senders : ClearCPU(s)
    \/ \E s \in Senders : ClearMem(s)
    \/ LaunchSend

(***************************************************************************)
(* main.go: the supervisor (the deferred recover of main), the startup     *)
(* of main, its heartbeat loop with the two slow tickers, and the          *)
(* goroutines it launches.  A CollectProcesses call, a reload-and-check    *)
(* of the alert monitor and the end of a dispatch are one step each.       *)
(***************************************************************************)
\* the slow tickers of main: portsTicker, processesTicker
Tickers == {"ports", "processes"}
\* the dispatches launched with `go`: sendOpenPortsEvent, sendProcessesEvents, sendAlert
Kinds == {"ports", "processes", "alert"}
\* how one turn of the heartbeat loop ends up: json.Marshal fails, NewRequest
\* fails, client.Do fails, io.ReadAll fails, the body is not JSON, the body
\* says "tomany", anything else
HbFailures == {"marshal_error", "request_error", "transport_error", "unreadable", "not_json"}
HbOutcomes == HbFailures \cup {"tomany", "ok"}
\* the goroutines besides main
Background == {"collector", "monitor", "dispatch"}

NoBoot == [ports |-> 0, collections |-> 0, processes |-> 0, err |-> FALSE, conf |-> "none"]

\* defaultDisks and defaultServices, and the fields of Custom
Lists == {"Disks", "Services"}
NoLists == [l \in Lists |-> "unset"]
Defaults == [l \in Lists |-> "default"]

\* a field of Custom after json.Unmarshal: nil (the key is absent or null),
\* an empty list, or a list with elements
SentLists == [Lists -> {"nil", "empty", "custom"}]
NothingSent == [l \in Lists |-> "nil"]
BothSent == [l \in Lists |-> "custom"]

\* what the configuration request gives: a logged failure, a body whose
\* "message" is "noconf", or any other JSON object
ConfOutcomes == {"failed", "noconf", "ok"}

\* `custom.Disks != nil`, `custom.Services != nil`
Replaces(list) == list # "nil"

\* (mutant) "noconf" is not told from a configuration
ConfiguredAlways(o) == o # "failed"

\* the configuration response is decoded into Custom
Configured(o) == o = "ok"

\* the lists in use after a decoded response
Apply(current, sent) == [l \in Lists |-> IF Replaces(sent[l]) THEN sent[l] ELSE current[l]]

Running == process = "running"

\* a counter followed up to a bound
UpTo(n, bound) == IF n < bound THEN n + 1 ELSE bound

\* `go f(...)`: one more task of the kind in flight
Launched(k, n) == [inflight EXCEPT ![k] = IF n = 0 THEN @ ELSE UpTo(@ + n - 1, MaxInFlight)]

\* (mutant) a launch that waits for the task it launched
GoReturnsWhenDone(k) == inflight[k] = 0

\* the statement after `go f(...)` runs whether or not f has returned
GoReturns(k) == TRUE

\* (mutant) the flags are defined on a flag set of this call of main, so
\* that a second call of main gets past them
ParseFlagsOnOwnFlagSet ==
    /\ Running
    /\ mpc = "flags"
    /\ mpc' = "token"
    /\ flagsDefined' = TRUE
    /\ UNCHANGED <<restarts, config, ticks, inflight, launched, dueAtPoll,
                   boot, hb, collectors, monitors, lastLoop, process, stale>>
    /\ UNCHANGED <<tables, alerts, outsideAgent>>

\* flag.Bool("version", ...), flag.Bool("status", ...), flag.Parse() on
\* flag.CommandLine (no flag given on the command line): defining a flag
\* that is defined already panics, and the deferred function recovers
ParseFlags ==
    /\ Running
    /\ mpc = "flags"
    /\ IF flagsDefined
       THEN /\ mpc' = "recover"
            /\ UNCHANGED flagsDefined
       ELSE /\ mpc' = "token"
            /\ flagsDefined' = TRUE
    /\ UNCHANGED <<restarts, config, ticks, inflight, launched, dueAtPoll,
                   boot, hb, collectors, monitors, lastLoop, process, stale>>
    /\ UNCHANGED <<tables, alerts, outsideAgent>>

\* (mutant) the token is tested after `go collectProcessData(...)`
CheckTokenAfterCollector(present) ==
    /\ Running
    /\ mpc = "token"
    /\ collectors' = UpTo(collectors, MaxRestarts + 1)
    /\ IF present
       THEN /\ mpc' = "collector"
            /\ UNCHANGED process
       ELSE /\ process' = "exit1"
            /\ UNCHANGED mpc
    /\ UNCHANGED <<flagsDefined, restarts, config, ticks, inflight, launched, dueAtPoll,
                   boot, hb, monitors, lastLoop, stale>>
    /\ UNCHANGED <<tables, alerts, outsideAgent>>

\* os.Getenv("MONKEY_API_KEY"): without a token os.Exit(1)
CheckToken(present) ==
    /\ Running
    /\ mpc = "token"
    /\ IF present
       THEN /\ mpc' = "collector"
            /\ UNCHANGED process
       ELSE /\ process' = "exit1"
            /\ UNCHANGED mpc
    /\ UNCHANGED <<flagsDefined, restarts, config, ticks, inflight, launched, dueAtPoll,
                   boot, hb, collectors, monitors, lastLoop, stale>>
    /\ UNCHANGED <<tables, alerts, outsideAgent>>

\* `go collectProcessData(...)`, then the default disks and services
StartCollector ==
    /\ Running
    /\ mpc = "collector"
    /\ collectors' = UpTo(collectors, MaxRestarts + 1)
    /\ config' = Defaults
    /\ mpc' = "config"
    /\ UNCHANGED <<flagsDefined, restarts, ticks, inflight, launched, dueAtPoll,
                   boot, hb, monitors, lastLoop, process, stale>>
    /\ UNCHANGED <<tables, alerts, outsideAgent>>

\* the configuration request: every failure and "noconf" leave the
\* defaults; any other body is decoded into Custom and its lists applied
FetchConfig(o, sent) ==
    /\ Running
    /\ mpc = "config"
    /\ config' = IF Configured(o) THEN Apply(config, sent) ELSE config
    /\ boot' = [boot EXCEPT !.conf = o]
    /\ mpc' = "endpoint"
    /\ UNCHANGED <<flagsDefined, restarts, ticks, inflight, launched, dueAtPoll,
                   hb, collectors, monitors, lastLoop, process, stale>>
    /\ UNCHANGED <<tables, alerts, outsideAgent>>

\* the sleep, the endpoint check (its result only changes a message), and
\* time.NewTicker for portsTicker and processesTicker
NewTickers ==
    /\ Running
    /\ mpc = "endpoint"
    /\ ticks' = [k \in Tickers |-> FALSE]
    /\ mpc' = "monitor"
    /\ UNCHANGED <<flagsDefined, restarts, config, inflight, launched, dueAtPoll,
                   boot, hb, collectors, monitors, lastLoop, process, stale>>
    /\ UNCHANGED <<tables, alerts, outsideAgent>>

\* the alerts directory main is followed on (cpu.mm and a.mm, nobody
\* editing them), what parsing its files gives, and loadAlerts on it: the
\* parsed definitions with the timestamps saved from the old table
AgentDir == [p \in Paths |-> IF p = "cpu.mm" THEN CpuMm ELSE FastMm]
AgentParsed == LoadAll(EmptyTable, [p \in {} |-> ZeroTime], Glob(AgentDir), AgentDir)
Reloaded(saved) == [p \in DOMAIN AgentParsed |-> WithLastSent(AgentParsed[p], saved)]

\* the table with every alert of the set stamped
Stamped(table, due, now) ==
    [p \in DOMAIN table |-> IF p \in due THEN [table[p] EXCEPT !.LastSent = now] ELSE table[p]]

\* custom.NewAlertMonitor and alertMonitor.Start(): loadAlerts,
\* sendAllAlerts, `go am.monitorAlerts()`
StartMonitor(loaded) ==
    /\ alerts' = Stamped(loaded, SendAllSet(loaded), clock)
    /\ inflight' = Launched("alert", Cardinality(DOMAIN loaded))
    /\ monitors' = UpTo(monitors, MaxRestarts + 1)
    /\ mpc' = "ports"

MainStartMonitor ==
    /\ Running
    /\ mpc = "monitor"
    /\ dir = AgentDir
    /\ StartMonitor(Reloaded([p \in {} |-> ZeroTime]))
    /\ UNCHANGED <<flagsDefined, restarts, config, ticks, launched, dueAtPoll,
                   boot, hb, collectors, lastLoop, process, stale>>
    /\ UNCHANGED <<tables, outsideAgent>>

\* `go sendOpenPortsEvent(...)` at startup
StartPorts ==
    /\ Running
    /\ mpc = "ports"
    /\ inflight' = Launched("ports", 1)
    /\ boot' = [boot EXCEPT !.ports = @ + 1]
    /\ mpc' = "collect"
    /\ UNCHANGED <<flagsDefined, restarts, config, ticks, launched, dueAtPoll,
                   hb, collectors, monitors, lastLoop, process, stale>>
    /\ UNCHANGED <<tables, alerts, outsideAgent>>

\* the runs of ps the goroutines of main are followed on: one that prints
\* nothing and fails, one that prints the header and one row
AgentRuns == {r \in StoreRuns : r.started /\ (r.waitErr <=> r.out = <<>>) /\ Len(r.out) # 1}

\* events.CollectProcesses: both queries, then both tables under the mutex;
\* a failed query leaves the store as it is
Collected(c, m) == [err |-> c.err \/ m.err, cpu |-> c.stats, mem |-> m.stats]

CollectProcesses(cpuRun, memRun) ==
    Collected(getTopProcessesPS(cpuRun, TopN), getTopProcessesPS(memRun, TopN))

StoreTables(r) ==
    IF r.err THEN UNCHANGED <<tables, stale>>
    ELSE /\ topCPUProcesses' = [cid |-> 1, rows |-> r.cpu]
         /\ topMemProcesses' = [cid |-> 1, rows |-> r.mem]
         /\ stale' = [m \in Metrics |-> FALSE]

\* (mutant) a startup that dispatches whatever its collection returned
LaunchAfterCollectAlways(err) == TRUE

\* `if err != nil { ... } else { go sendProcessesEvents(...) }`
LaunchAfterCollect(err) == ~err

\* the startup collection of main and the dispatch that follows it
StartupCollect(r) ==
    /\ StoreTables(r)
    /\ inflight' = Launched("processes", IF LaunchAfterCollect(r.err) THEN 1 ELSE 0)
    /\ boot' = [boot EXCEPT !.collections = @ + 1,
                            !.processes = IF LaunchAfterCollect(r.err) THEN @ + 1 ELSE @,
                            !.err = r.err]
    /\ mpc' = "measure"

MainStartupCollect(cpuRun, memRun) ==
    /\ Running
    /\ mpc = "collect"
    /\ GoReturns("ports")
    /\ StartupCollect(CollectProcesses(cpuRun, memRun))
    /\ UNCHANGED <<flagsDefined, restarts, config, ticks, launched, dueAtPoll,
                   hb, collectors, monitors, lastLoop, process>>
    /\ UNCHANGED <<alerts, outsideAgent>>

\* the tickers whose channel holds a tick
Ready == {k \in Tickers : ticks[k]}

(***************************************************************************)
(* The traffic counters: monitors.GetNetStats sums BytesSent and BytesRecv *)
(* of the interfaces, and returns 0, 0 when net.IOCounters fails.          *)
(***************************************************************************)
\* what GetNetStats returns
Readings == [Upload : 0..MaxCounter, Download : 0..MaxCounter]

\* before the first call of GetNetStats
NoTraffic ==
    [Upload |-> 0, Download |-> 0, UploadInterval |-> 0, DownloadInterval |-> 0,
     oldUpload |-> 0, oldDownload |-> 0]

\* a - b on unsigned integers of the counters' width
Minus(a, b) == (a - b) % (MaxCounter + 1)

\* NewTickers with the counters followed: `initialUpload, initialDownload :=
\* monitors.GetNetStats()` and `oldUpload, oldDownload = initialUpload,
\* initialDownload` come before the endpoint check
NewTickersAfterNetStats(initial) ==
    /\ Running
    /\ mpc = "endpoint"
    /\ net' = [net EXCEPT !.Upload = initial.Upload, !.Download = initial.Download,
                          !.oldUpload = initial.Upload, !.oldDownload = initial.Download]
    /\ ticks' = [k \in Tickers |-> FALSE]
    /\ mpc' = "monitor"
    /\ UNCHANGED <<flagsDefined, restarts, config, inflight, launched, dueAtPoll,
                   boot, hb, collectors, monitors, lastLoop, process, stale>>
    /\ UNCHANGED <<tables, alerts, waitVars, outsideNet>>

\* `oldUpload = m.Upload`, `oldDownload = m.Download` stand in the else
\* branch of the "tomany" test, which a turn that failed does not reach
KeepsReading(o) == o = "ok"

\* the mesure of a turn: `m.Upload, m.Download = monitors.GetNetStats()`,
\* the two intervals, and oldUpload, oldDownload after the request gave o
Measured(old, now, o) ==
    [Upload |-> now.Upload,
     Download |-> now.Download,
     UploadInterval |-> Minus(now.Upload, old.oldUpload),
     DownloadInterval |-> Minus(now.Download, old.oldDownload),
     oldUpload |-> IF KeepsReading(o) THEN now.Upload ELSE old.oldUpload,
     oldDownload |-> IF KeepsReading(o) THEN now.Download ELSE old.oldDownload]

\* Heartbeat with the counters followed: one turn of `for { ... }` up to
\* the select
HeartbeatWithNetStats(o, now) ==
    /\ Running
    /\ mpc = "measure"
    /\ net' = Measured(net, now, o)
    /\ hb' = IF o \in HbFailures THEN "failed" ELSE o
    /\ launched' = {}
    /\ IF o = "ok"
       THEN /\ mpc' = "poll"
            /\ dueAtPoll' = {}
       ELSE /\ mpc' = "sleep"
            /\ dueAtPoll' = Ready
    /\ UNCHANGED <<flagsDefined, restarts, config, ticks, inflight,
                   boot, collectors, monitors, lastLoop, process, stale>>
    /\ UNCHANGED <<tables, alerts, waitVars, outsideNet>>


\* one turn of `for { ... }` up to the select: the measurements and the
\* heartbeat request.  Every failure sleeps and continues; "tomany" sleeps
\* 60 seconds; neither reaches the select.  Any other body is decoded into
\* Custom and its lists applied.
Heartbeat(o, sent) ==
    /\ Running
    /\ mpc = "measure"
    /\ hb' = IF o \in HbFailures THEN "failed" ELSE o
    /\ launched' = {}
    /\ IF o = "ok"
       THEN /\ mpc' = "poll"
            /\ dueAtPoll' = {}
       ELSE /\ mpc' = "sleep"
            /\ dueAtPoll' = Ready
    /\ config' = IF o = "ok" THEN Apply(config, sent) ELSE config
    /\ UNCHANGED <<flagsDefined, restarts, ticks, inflight,
                   boot, collectors, monitors, lastLoop, process, stale>>
    /\ UNCHANGED <<tables, alerts, outsideAgent>>

\* (mutant) a poll that empties both channels and launches one dispatch
PollDrainsAll(k) ==
    /\ Running
    /\ mpc = "poll"
    /\ k \in Ready
    /\ dueAtPoll' = Ready
    /\ ticks' = [j \in Tickers |-> FALSE]
    /\ inflight' = Launched(k, 1)
    /\ launched' = {k}
    /\ mpc' = "sleep"
    /\ UNCHANGED <<flagsDefined, restarts, config,
                   boot, hb, collectors, monitors, lastLoop, process, stale>>
    /\ UNCHANGED <<tables, alerts, outsideAgent>>

\* the select takes one of its ready cases: `case <-ticker.C: go send...`
Poll(k) ==
    /\ Running
    /\ mpc = "poll"
    /\ k \in Ready
    /\ dueAtPoll' = Ready
    /\ ticks' = [ticks EXCEPT ![k] = FALSE]
    /\ inflight' = Launched(k, 1)
    /\ launched' = {k}
    /\ mpc' = "sleep"
    /\ UNCHANGED <<flagsDefined, restarts, config,
                   boot, hb, collectors, monitors, lastLoop, process, stale>>
    /\ UNCHANGED <<tables, alerts, outsideAgent>>

\* the select with no ready case: `default:`
PollDefault ==
    /\ Running
    /\ mpc = "poll"
    /\ Ready = {}
    /\ dueAtPoll' = {}
    /\ mpc' = "sleep"
    /\ UNCHANGED <<flagsDefined, restarts, config, ticks, inflight, launched,
                   boot, hb, collectors, monitors, lastLoop, process, stale>>
    /\ UNCHANGED <<tables, alerts, outsideAgent>>

\* time.Sleep at the end of the turn, and the next turn
Sleep ==
    /\ Running
    /\ mpc = "sleep"
    /\ \A k \in launched : GoReturns(k)
    /\ mpc' = "measure"
    /\ UNCHANGED <<flagsDefined, restarts, config, ticks, inflight, launched,
                   dueAtPoll, boot, hb, collectors, monitors, lastLoop, process, stale>>
    /\ UNCHANGED <<tables, alerts, outsideAgent>>

\* a ticker of main fires: its channel holds one tick
Tick(k) ==
    /\ Running
    /\ mpc \in {"monitor", "ports", "collect", "measure", "poll", "sleep"}
    /\ ~ticks[k]
    /\ ticks' = [ticks EXCEPT ![k] = TRUE]
    /\ UNCHANGED <<mpc, flagsDefined, restarts, config, inflight, launched,
                   dueAtPoll, boot, hb, collectors, monitors, lastLoop, process, stale>>
    /\ UNCHANGED <<tables, alerts, outsideAgent>>

\* the tasks in flight once one of n returned
AfterReturn(n) == IF n = MaxInFlight THEN {n - 1, n} ELSE {n - 1}

\* a dispatch task returns; sendProcessesEvents ends with ClearProcessData
DispatchReturn(k) ==
    /\ Running
    /\ inflight[k] > 0
    /\ \E n \in AfterReturn(inflight[k]) : inflight' = [inflight EXCEPT ![k] = n]
    /\ IF k = "processes"
       THEN /\ topCPUProcesses' = NilTable
            /\ topMemProcesses' = NilTable
            /\ stale' = [m \in Metrics |-> FALSE]
       ELSE UNCHANGED <<tables, stale>>
    /\ UNCHANGED <<mpc, flagsDefined, restarts, config, ticks, launched,
                   dueAtPoll, boot, hb, collectors, monitors, lastLoop, process>>
    /\ UNCHANGED <<alerts, outsideAgent>>

\* collectProcessData: its collection at its start, or on a tick of its ticker
CollectorRun(cpuRun, memRun) ==
    /\ Running
    /\ collectors > 0
    /\ StoreTables(CollectProcesses(cpuRun, memRun))
    /\ lastLoop' = "collector"
    /\ UNCHANGED <<mpc, flagsDefined, restarts, config, ticks, inflight, launched,
                   dueAtPoll, boot, hb, collectors, monitors, process>>
    /\ UNCHANGED <<alerts, outsideAgent>>

\* checkAlerts: the reload, then `go am.sendAlert` and the stamp for the due alerts
Checked(loaded, now) ==
    /\ alerts' = Stamped(loaded, {p \in DOMAIN loaded : Due(loaded[p], now)}, now)
    /\ inflight' = Launched("alert", Cardinality({p \in DOMAIN loaded : Due(loaded[p], now)}))

\* monitorAlerts receives a tick of its ticker
MonitorTick ==
    /\ Running
    /\ monitors > 0
    /\ dir = AgentDir
    /\ Checked(Reloaded([p \in DOMAIN alerts |-> alerts[p].LastSent]), clock)
    /\ lastLoop' = "monitor"
    /\ UNCHANGED <<mpc, flagsDefined, restarts, config, ticks, launched,
                   dueAtPoll, boot, hb, collectors, monitors, process, stale>>
    /\ UNCHANGED <<tables, outsideAgent>>

\* the tables the store holds when main panics
StaleNow == [m \in Metrics |-> StoredTable(m) # NilTable]

\* a panic in the control flow of main, after its flags were parsed: the
\* deferred function of main recovers it
MainFault ==
    /\ Running
    /\ mpc \in {"collector", "config", "endpoint", "monitor", "ports", "collect",
                "measure", "poll", "sleep"}
    /\ mpc' = "recover"
    /\ UNCHANGED <<flagsDefined, restarts, config, ticks, inflight, launched,
                   dueAtPoll, boot, hb, collectors, monitors, lastLoop, process, stale>>
    /\ UNCHANGED <<tables, alerts, outsideAgent>>

\* the deferred function: time.Sleep(10 s), then main() again.  The
\* variables of package events, flag.CommandLine and the goroutines of the
\* earlier call are what they were; the locals of the new call are new.
Restart ==
    /\ Running
    /\ mpc = "recover"
    /\ restarts' = UpTo(restarts, MaxRestarts)
    /\ mpc' = "flags"
    /\ config' = NoLists
    /\ ticks' = [k \in Tickers |-> FALSE]
    /\ boot' = NoBoot
    /\ launched' = {}
    /\ dueAtPoll' = {}
    /\ hb' = "none"
    /\ stale' = StaleNow
    /\ UNCHANGED <<flagsDefined, inflight, collectors, monitors, lastLoop, process>>
    /\ UNCHANGED <<tables, alerts, outsideAgent>>

\* the goroutines of a kind that exist
Exists(g) ==
    CASE g = "collector" -> collectors > 0
      [] g = "monitor" -> monitors > 0
      [] g = "dispatch" -> \E k \in Kinds : inflight[k] > 0

\* a panic in a goroutine other than main: no function of that goroutine
\* recovers, and the runtime ends the process
BackgroundFault(g) ==
    /\ Running
    /\ Exists(g)
    /\ process' = g
    /\ UNCHANGED <<mpc, flagsDefined, restarts, config, ticks, inflight, launched,
                   dueAtPoll, boot, hb, collectors, monitors, lastLoop, stale>>
    /\ UNCHANGED <<tables, alerts, outsideAgent>>

(***************************************************************************)
(* The dispatch functions: sendOpenPortsEvent, sendProcessesEvent and      *)
(* sendAlert.  Each builds its payload and its request, calls client.Do    *)
(* once, and logs the outcome.                                             *)
(***************************************************************************)
Dispatchers == {"sendOpenPortsEvent", "sendProcessesEvent", "sendAlert"}
\* the response statuses the collector is followed on
Statuses == {199, 200, 204, 299, 300, 404, 503}
\* no response
NoStatus == 0

NoTask == [pc |-> "idle", posts |-> 0, status |-> NoStatus, logged |-> "none"]

\* a call of the function
Invoke(t) ==
    /\ dtask[t].pc \in {"idle", "returned"}
    /\ dtask' = [dtask EXCEPT ![t] = [NoTask EXCEPT !.pc = "prepare"]]
    /\ UNCHANGED outsideDispatch

\* the data, json.Marshal and http.NewRequest: an error is logged and the
\* function returns
Prepare(t, ok) ==
    /\ dtask[t].pc = "prepare"
    /\ dtask' = [dtask EXCEPT ![t] = IF ok THEN [@ EXCEPT !.pc = "post"]
                                     ELSE [@ EXCEPT !.pc = "returned", !.logged = "failure"]]
    /\ UNCHANGED outsideDispatch

\* client.Do(req) returns an error: logged, and the function returns
PostError(t) ==
    /\ dtask[t].pc = "post"
    /\ dtask' = [dtask EXCEPT ![t] = [@ EXCEPT !.pc = "returned", !.posts = @ + 1,
                                                !.logged = "failure"]]
    /\ UNCHANGED outsideDispatch

\* client.Do(req) returns a response
PostResponse(t, status) ==
    /\ dtask[t].pc = "post"
    /\ dtask' = [dtask EXCEPT ![t] = [@ EXCEPT !.pc = "log", !.posts = @ + 1,
                                                !.status = status]]
    /\ UNCHANGED outsideDispatch

\* (mutant) the status test with <= 300
SucceededUpTo300(status) == status >= 200 /\ status <= 300

\* `resp.StatusCode >= 200 && resp.StatusCode < 300`
Succeeded(status) == status >= 200 /\ status < 300

\* the log line, and the return
LogOutcome(t) ==
    /\ dtask[t].pc = "log"
    /\ dtask' = [dtask EXCEPT ![t] =
                    [@ EXCEPT !.pc = "returned",
                              !.logged = IF Succeeded(dtask[t].status) THEN "success"
                                         ELSE "failure"]]
    /\ UNCHANGED outsideDispatch

DispatchNext ==
    \/ \E t \in Dispatchers : Invoke(t)
    \/ \E t \in Dispatchers, ok \in BOOLEAN : Prepare(t, ok)
    \/ \E t \in Dispatchers : PostError(t)
    \/ \E t \in Dispatchers, status \in Statuses : PostResponse(t, status)
    \/ \E t \in Dispatchers : LogOutcome(t)

(***************************************************************************)
(* helpers.CheckEndpoint(endpoint), and `for i := 0; i < 3; i++` of main   *)
(* around it.  A dial outcome is a boolean: the connection was made.       *)
(***************************************************************************)
\* maxRetries := 3
maxRetries == 3
\* `for i := 0; i < 3; i++` of main
MaxChecks == 3
\* the cap of the backoff, in seconds
MaxBackoff == 15

\* what url.Parse makes of a string: an error, or a scheme and a port ("":
\* none given)
Endpoints ==
    {[parses |-> FALSE, scheme |-> "", port |-> ""]}
    \cup {[parses |-> TRUE, scheme |-> sc, port |-> po] :
             sc \in {"http", "https", "tcp"}, po \in {"", "8000"}}

\* updateApi of main: "https://monitormonkey.io/api/update/"
UpdateApi == [parses |-> TRUE, scheme |-> "https", port |-> ""]

\* the port of addr once the default was added to a host without one
AddrPort(e) ==
    IF e.port # "" THEN e.port
    ELSE IF e.scheme = "http" THEN "80"
    ELSE IF e.scheme = "https" THEN "443"
    ELSE ""

NoCheck == [pc |-> "idle", i |-> 0, dials |-> <<>>, slept |-> 0, port |-> "", result |-> FALSE]

\* main calls CheckEndpoint
CallCheckEndpoint ==
    /\ ep.pc = "idle"
    /\ calls < MaxChecks
    /\ ~isAlive
    /\ calls' = calls + 1
    /\ ep' = [NoCheck EXCEPT !.pc = "parse"]
    /\ UNCHANGED <<endpoint, isAlive>>
    /\ UNCHANGED outsideEndpoint

\* url.Parse: on an error `return false`; else the address
ParseURL ==
    /\ ep.pc = "parse"
    /\ ep' = IF endpoint.parses
             THEN [ep EXCEPT !.pc = "dial", !.port = AddrPort(endpoint)]
             ELSE [ep EXCEPT !.pc = "returned", !.result = FALSE]
    /\ UNCHANGED <<endpoint, calls, isAlive>>
    /\ UNCHANGED outsideEndpoint

\* (mutant) the loop test with <=
MoreAttemptsInclusive(i) == i <= maxRetries

\* `i < maxRetries`
MoreAttempts(i) == i < maxRetries

\* net.DialTimeout: on success Close and `return true`; on an error the
\* backoff unless this was the last attempt
Dial(ok) ==
    /\ ep.pc = "dial"
    /\ ep' = IF ok
             THEN [ep EXCEPT !.pc = "returned", !.dials = Append(@, TRUE), !.result = TRUE]
             ELSE [ep EXCEPT !.pc = IF ep.i < maxRetries - 1 THEN "backoff" ELSE "continue",
                             !.dials = Append(@, FALSE)]
    /\ UNCHANGED <<endpoint, calls, isAlive>>
    /\ UNCHANGED outsideEndpoint

\* 1 << i
RECURSIVE Shift(_)
Shift(i) == IF i = 0 THEN 1 ELSE 2 * Shift(i - 1)

\* (mutant) the shift by i + 1
SleepTimeFromOne(i) == Shift(i + 1)

\* the seconds slept after the failed attempt i
SleepTime(i) == IF Shift(i) > MaxBackoff THEN MaxBackoff ELSE Shift(i)

\* time.Sleep(sleepTime)
Backoff ==
    /\ ep.pc = "backoff"
    /\ ep' = [ep EXCEPT !.pc = "continue", !.slept = @ + SleepTime(ep.i)]
    /\ UNCHANGED <<endpoint, calls, isAlive>>
    /\ UNCHANGED outsideEndpoint

\* `continue`: i++ and the loop test; after the loop `return false`
Continue ==
    /\ ep.pc = "continue"
    /\ ep' = IF MoreAttempts(ep.i + 1)
             THEN [ep EXCEPT !.pc = "dial", !.i = @ + 1]
             ELSE [ep EXCEPT !.pc = "returned", !.i = @ + 1, !.result = FALSE]
    /\ UNCHANGED <<endpoint, calls, isAlive>>
    /\ UNCHANGED outsideEndpoint

\* main after the call: isAlive = true and break, or time.Sleep(5 s)
EndpointChecked ==
    /\ ep.pc = "returned"
    /\ isAlive' = ep.result
    /\ ep' = [ep EXCEPT !.pc = "idle"]
    /\ UNCHANGED <<endpoint, calls>>
    /\ UNCHANGED outsideEndpoint

EndpointNext ==
    \/ CallCheckEndpoint
    \/ ParseURL
    \/ \E ok \in BOOLEAN : Dial(ok)
    \/ Backoff
    \/ Continue
    \/ EndpointChecked

EndpointInit(es) ==
    /\ endpoint \in es
    /\ ep = NoCheck
    /\ calls = 0
    /\ isAlive = FALSE

(***************************************************************************)
(* The loop of main with the time its waits take: client.Do returns        *)
(* within the Timeout of the client, time.Sleep ends no sooner than asked. *)
(***************************************************************************)
\* `Timeout: 30 * time.Second` of the http.Client
ClientTimeout == 30000
\* `time.Sleep(60 * time.Second)` after "tomany"
TomanySleep == 60000
\* `interval := 5`, slept at the end of every other turn
Interval == 5000

\* the outcomes of the heartbeat before client.Do, and from it on
HbUnsent == {"marshal_error", "request_error"}
HbSent == HbOutcomes \ HbUnsent

\* json.Marshal or http.NewRequest failed: the sleep, and `continue`
RequestFailure(o) ==
    /\ Running
    /\ mpc = "measure"
    /\ hb' = "failed"
    /\ launched' = {}
    /\ dueAtPoll' = Ready
    /\ mpc' = "sleep"
    /\ wakeAt' = clock + Interval
    /\ UNCHANGED <<flagsDefined, restarts, config, ticks, inflight,
                   boot, collectors, monitors, lastLoop, process, stale>>
    /\ UNCHANGED <<tables, alerts, stopChan, outsideWaits>>

\* main calls client.Do(req) with the heartbeat and waits for it to return
SendHeartbeat ==
    /\ Running
    /\ mpc = "measure"
    /\ mpc' = "request"
    /\ wakeAt' = clock + ClientTimeout
    /\ UNCHANGED <<flagsDefined, restarts, config, ticks, inflight, launched, dueAtPoll,
                   boot, hb, collectors, monitors, lastLoop, process, stale>>
    /\ UNCHANGED <<tables, alerts, stopChan, outsideWaits>>

\* the sleep of the turn whose heartbeat gave o
SleepAfter(o) == IF o = "tomany" THEN TomanySleep ELSE Interval

\* client.Do returned: a failure sleeps and continues, "tomany" sleeps 60
\* seconds, any other body goes on to the select
Respond(o) ==
    /\ Running
    /\ mpc = "request"
    /\ hb' = IF o \in HbFailures THEN "failed" ELSE o
    /\ launched' = {}
    /\ IF o = "ok"
       THEN /\ mpc' = "poll"
            /\ dueAtPoll' = {}
            /\ UNCHANGED wakeAt
       ELSE /\ mpc' = "sleep"
            /\ dueAtPoll' = Ready
            /\ wakeAt' = clock + SleepAfter(o)
    /\ UNCHANGED <<flagsDefined, restarts, config, ticks, inflight,
                   boot, collectors, monitors, lastLoop, process, stale>>
    /\ UNCHANGED <<tables, alerts, stopChan, outsideWaits>>

\* the select takes one of its ready cases, then time.Sleep(interval)
TimedPoll(k) ==
    /\ Running
    /\ mpc = "poll"
    /\ k \in Ready
    /\ dueAtPoll' = Ready
    /\ ticks' = [ticks EXCEPT ![k] = FALSE]
    /\ inflight' = Launched(k, 1)
    /\ launched' = {k}
    /\ mpc' = "sleep"
    /\ wakeAt' = clock + Interval
    /\ UNCHANGED <<flagsDefined, restarts, config,
                   boot, hb, collectors, monitors, lastLoop, process, stale>>
    /\ UNCHANGED <<tables, alerts, stopChan, outsideWaits>>

\* the select with no ready case, then time.Sleep(interval)
TimedPollDefault ==
    /\ Running
    /\ mpc = "poll"
    /\ Ready = {}
    /\ dueAtPoll' = {}
    /\ mpc' = "sleep"
    /\ wakeAt' = clock + Interval
    /\ UNCHANGED <<flagsDefined, restarts, config, ticks, inflight, launched,
                   boot, hb, collectors, monitors, lastLoop, process, stale>>
    /\ UNCHANGED <<tables, alerts, stopChan, outsideWaits>>

\* time.Sleep returns, and the next turn
WakeUp ==
    /\ Running
    /\ mpc = "sleep"
    /\ clock >= wakeAt
    /\ mpc' = "measure"
    /\ UNCHANGED <<flagsDefined, restarts, config, ticks, inflight, launched,
                   dueAtPoll, boot, hb, collectors, monitors, lastLoop, process, stale>>
    /\ UNCHANGED <<tables, alerts, waitVars, outsideWaits>>

\* time passes while main waits, in client.Do or in time.Sleep (what main
\* computes takes no time); not beyond the timeout of its request
TimePasses ==
    /\ mpc \in {"request", "sleep"}
    /\ mpc = "request" => clock + TimeStep <= wakeAt
    /\ AdvanceTime(TimeStep, MaxLoopMinutes * MinAlertInterval)

(***************************************************************************)
(* A dispatch that fails.  Each dispatch function logs the error of        *)
(* client.Do, or the status and body of a response outside 200..299, and   *)
(* returns; sendProcessesEvents goes on to ClearProcessData.               *)
(***************************************************************************)
\* the function a dispatch of the kind runs
SendFunction(k) ==
    CASE k = "ports" -> "sendOpenPortsEvent"
      [] k = "processes" -> "sendProcessesEvent"
      [] k = "alert" -> "sendAlert"

\* the failure each kind of dispatch is followed on: no response, or a
\* status outside 200..299
Failures == {<<"alert", 503>>, <<"ports", NoStatus>>, <<"processes", 503>>}

\* (mutant) a failed sendAlert clears the stamps, so that the next check
\* sends again
DispatchFailedResends(k, status) ==
    /\ Running
    /\ inflight[k] > 0
    /\ \E n \in AfterReturn(inflight[k]) : inflight' = [inflight EXCEPT ![k] = n]
    /\ dtask' = [dtask EXCEPT ![SendFunction(k)] =
                    [pc |-> "returned", posts |-> 1, status |-> status, logged |-> "failure"]]
    /\ alerts' = IF k = "alert" THEN [p \in DOMAIN alerts |-> [alerts[p] EXCEPT !.LastSent = ZeroTime]]
                 ELSE alerts
    /\ IF k = "processes"
       THEN /\ topCPUProcesses' = NilTable
            /\ topMemProcesses' = NilTable
            /\ stale' = [m \in Metrics |-> FALSE]
       ELSE UNCHANGED <<tables, stale>>
    /\ UNCHANGED <<mpc, flagsDefined, restarts, config, ticks, launched,
                   dueAtPoll, boot, hb, collectors, monitors, lastLoop, process>>
    /\ UNCHANGED <<processDataMutex, cpc, cloc, nextCid, completed, spc, sloc, mainpc,
                   lastWrite, dir, apc, ret, files, lastSentTimes, newAlerts, clock, tickAt,
                   tickPending, sentCount, lastDispatch, dropped, createdAt,
                   editedSinceGlob, cleanLoads, reloadVars, endpointVars, waitVars, netVars>>

\* a dispatch task fails and returns: the failure is logged, nothing else
\* is kept of it
DispatchFailed(k, status) ==
    /\ Running
    /\ inflight[k] > 0
    /\ \E n \in AfterReturn(inflight[k]) : inflight' = [inflight EXCEPT ![k] = n]
    /\ dtask' = [dtask EXCEPT ![SendFunction(k)] =
                    [pc |-> "returned", posts |-> 1, status |-> status, logged |-> "failure"]]
    /\ IF k = "processes"
       THEN /\ topCPUProcesses' = NilTable
            /\ topMemProcesses' = NilTable
            /\ stale' = [m \in Metrics |-> FALSE]
       ELSE UNCHANGED <<tables, stale>>
    /\ UNCHANGED <<mpc, flagsDefined, restarts, config, ticks, launched,
                   dueAtPoll, boot, hb, collectors, monitors, lastLoop, process>>
    /\ UNCHANGED <<processDataMutex, cpc, cloc, nextCid, completed, spc, sloc, mainpc,
                   lastWrite, alertVars, reloadVars, endpointVars, waitVars, netVars>>

(***************************************************************************)
(* AlertMonitor.Stop and the `case <-am.stopChan` of monitorAlerts.         *)
(***************************************************************************)
\* close(am.stopChan)
Stop ==
    /\ Running
    /\ monitors > 0
    /\ stopChan = "open"
    /\ stopChan' = "closed"
    /\ UNCHANGED <<agentVars, tables, alerts, wakeAt, outsideWaits>>

\* (mutant) the stop case leaves the select, not the loop
StopReceiveBreaks ==
    /\ Running
    /\ monitors > 0
    /\ stopChan = "closed"
    /\ UNCHANGED vars

\* the select of monitorAlerts takes `case <-am.stopChan: return`
StopReceive ==
    /\ Running
    /\ monitors > 0
    /\ stopChan = "closed"
    /\ monitors' = monitors - 1
    /\ UNCHANGED <<mpc, flagsDefined, restarts, config, ticks, inflight, launched,
                   dueAtPoll, boot, hb, collectors, lastLoop, process, stale>>
    /\ UNCHANGED <<tables, alerts, waitVars, outsideWaits>>

MainInit ==
    /\ dtask = [t \in Dispatchers |-> NoTask]
    /\ mpc = "flags"
    /\ flagsDefined = FALSE
    /\ restarts = 0
    /\ config = NoLists
    /\ ticks = [k \in Tickers |-> FALSE]
    /\ inflight = [k \in Kinds |-> 0]
    /\ launched = {}
    /\ dueAtPoll = {}
    /\ boot = NoBoot
    /\ hb = "none"
    /\ collectors = 0
    /\ monitors = 0
    /\ lastLoop = "none"
    /\ process = "running"
    /\ stale = [m \in Metrics |-> FALSE]
    /\ wakeAt = 0
    /\ stopChan = "open"
    /\ net = NoTraffic

AgentInit ==
    /\ EndpointInit({UpdateApi})
    /\ MainInit

\* main from its first statement to its loop, and the loop; the collector
\* answers "noconf" to the configuration request and sends its lists, if
\* any, with a heartbeat
MainNext ==
    \/ ParseFlags
    \/ CheckToken(TRUE)
    \/ StartCollector
    \/ FetchConfig("noconf", NothingSent)
    \/ NewTickers
    \/ MainStartMonitor
    \/ StartPorts
    \/ \E cpuRun \in AgentRuns, memRun \in AgentRuns : MainStartupCollect(cpuRun, memRun)
    \/ \E o \in HbOutcomes : Heartbeat(o, NothingSent)
    \/ Heartbeat("ok", BothSent)
    \/ \E k \in Tickers : Poll(k)
    \/ PollDefault
    \/ Sleep

\* the tickers and the goroutines main launched
BackgroundNext ==
    \/ \E k \in Tickers : Tick(k)
    \/ \E k \in Kinds : DispatchReturn(k)
    \/ \E cpuRun \in AgentRuns, memRun \in AgentRuns : CollectorRun(cpuRun, memRun)
    \/ MonitorTick

(***************************************************************************)
(* Specifications.  Spec: the store and its tasks in every interleaving,   *)
(* the provider giving one output of each class.  PsSpec: the startup      *)
(* path of main (its collection, then the dispatches it launches), the     *)
(* provider giving every sorted output within the bounds.                  *)
(***************************************************************************)
NoAlertDirs == {[p \in Paths |-> Absent]}

Init == StoreInit /\ MonitorInit(NoAlertDirs) /\ AgentInit
Next == StoreNext(StoreRuns)
Spec == Init /\ [][Next]_vars

PsNext ==
    \/ \E run \in PsRuns : CollectQueryCPU("main", run)
    \/ \E run \in PsRuns : CollectQueryMem("main", run)
    \/ CollectStoreCPU("main")
    \/ CollectStoreMem("main")
    \/ \E s \in Senders, m \in Metrics : SendGet(s, m)
    \/ \E s \in Senders, m \in Metrics, o \in HttpOutcomes : SendPost(s, m, o)
    \/ \E s \in Senders : ClearCPU(s)
    \/ \E s \in Senders : ClearMem(s)
    \/ LaunchSend
PsSpec == Init /\ [][PsNext]_vars

(***************************************************************************)
(* AlertSpec: one AlertMonitor, its directory edited at any moment, time   *)
(* passing at any moment.  ParseSpec: Start on every directory that holds  *)
(* one file of AllFiles, next to cpu.mm or nothing.  ScenarioSpec: the     *)
(* 5-minute definition, there at startup or created later, every check     *)
(* running at its tick.                                                    *)
(***************************************************************************)
AlertDirs == {d \in [Paths -> AlertFiles \cup {Absent}] : \A p \in Paths : d[p] \in Contents(p)}

AlertInit == StoreInit /\ MonitorInit(AlertDirs) /\ AgentInit

AlertNext ==
    \/ MonitorNext
    \/ AdvanceTime(MinAlertInterval, MaxMinutes * MinAlertInterval)
    \/ \E p \in Paths : \E c \in Contents(p) : EditFile(p, c)

AlertSpec == AlertInit /\ [][AlertNext]_vars

ParseDirs ==
    {[p \in Paths |-> IF p = q THEN f ELSE g] :
        q \in Paths, f \in AllFiles \cup {Absent}, g \in {Absent, CpuMm}}

ParseNext ==
    \/ Start
    \/ Snapshot
    \/ ParseFile
    \/ Swap
    \/ SendAll

ParseInit == StoreInit /\ MonitorInit(ParseDirs) /\ AgentInit

ParseSpec == ParseInit /\ [][ParseNext]_vars

ScenarioDirs == {d \in [Paths -> {Absent, CpuMm}] : d["a.mm"] = Absent}

ScenarioInit == StoreInit /\ MonitorInit(ScenarioDirs) /\ AgentInit

\* time passes once the monitor has done what is due
WaitForTick == Waiting /\ AdvanceTime(TimeStep, ScenarioMinutes * MinAlertInterval)

ScenarioNext ==
    \/ MonitorNext
    \/ WaitForTick
    \/ CreateFile("cpu.mm", CpuMm)

ScenarioSpec == ScenarioInit /\ [][ScenarioNext]_vars

(***************************************************************************)
(* RaceSpec: the monitor on a directory nobody edits, and loadAlerts       *)
(* called by a second goroutine at any moment.                             *)
(***************************************************************************)
RaceDirs == {[p \in Paths |-> IF p = "cpu.mm" THEN CpuMm ELSE FastMm]}

RaceInit == StoreInit /\ MonitorInit(RaceDirs) /\ AgentInit

RaceNext ==
    \/ MonitorNext
    \/ AdvanceTime(MinAlertInterval, MaxMinutes * MinAlertInterval)
    \/ ReloadSnapshot
    \/ ReloadSwap

RaceSpec == RaceInit /\ [][RaceNext]_vars

(***************************************************************************)
(* LoopSpec: main from its first statement, its tickers firing at any      *)
(* moment, its goroutines running at any pace, no panic.  LoopLiveSpec:    *)
(* main and the two background loops keep taking their steps, and the      *)
(* select, which picks among its ready cases at random, does not pass a    *)
(* ready case over for ever; a dispatch may never return.                  *)
(***************************************************************************)
LoopInit == StoreInit /\ MonitorInit({AgentDir}) /\ AgentInit

LoopNext ==
    \/ MainNext
    \/ BackgroundNext

LoopSpec == LoopInit /\ [][LoopNext]_vars

LoopLiveSpec ==
    /\ LoopSpec
    /\ WF_vars(MainNext)
    /\ \A k \in Tickers : SF_vars(Poll(k))
    /\ WF_vars(MonitorTick)
    /\ WF_vars(\E cpuRun \in AgentRuns, memRun \in AgentRuns : CollectorRun(cpuRun, memRun))

(***************************************************************************)
(* SupervisorSpec: LoopSpec with panics: in main (recovered by its         *)
(* deferred function, which calls main() again) and in the goroutines.     *)
(* SupervisorLiveSpec: main and its deferred function keep taking their    *)
(* steps.                                                                  *)
(***************************************************************************)
SupervisorNext ==
    \/ MainNext
    \/ BackgroundNext
    \/ MainFault
    \/ Restart
    \/ \E g \in Background : BackgroundFault(g)

SupervisorSpec == LoopInit /\ [][SupervisorNext]_vars

SupervisorLiveSpec ==
    /\ SupervisorSpec
    /\ WF_vars(MainNext)
    /\ WF_vars(Restart)

(***************************************************************************)
(* ReloadSpec: one AlertMonitor through its first reloads, its directory   *)
(* edited at any moment.                                                   *)
(***************************************************************************)
ReloadNext ==
    \/ MonitorNext
    \/ AdvanceTime(MinAlertInterval, MaxLoopMinutes * MinAlertInterval)
    \/ \E p \in Paths : \E c \in Contents(p) : EditFile(p, c)

ReloadSpec == AlertInit /\ [][ReloadNext]_vars

(***************************************************************************)
(* RenameSpec: one AlertMonitor whose files are renamed at any moment,     *)
(* every check running at its tick.                                        *)
(***************************************************************************)
\* time passes once the monitor has done what is due
RenameWait == Waiting /\ AdvanceTime(TimeStep, MaxLoopMinutes * MinAlertInterval)

RenameNext ==
    \/ MonitorNext
    \/ RenameWait
    \/ \E p \in Paths, q \in Paths : Rename(p, q)

RenameSpec == AlertInit /\ [][RenameNext]_vars

(***************************************************************************)
(* IntervalSpec: Start on every directory whose one file gives its         *)
(* interval as a number followed by a unit suffix.                         *)
(***************************************************************************)
Numbers == {<<"0">>, <<"1">>, <<"2">>, <<"1", "0">>, <<"2", "4">>}

Suffixes == {<<"m", "s">>, <<"s">>, <<"m">>, <<"h">>, <<"h", "r">>, <<"h", "r", "s">>, <<"d">>}

IntervalMm(text) ==
    File(<<KV("name", <<"n">>), KV("interval", text), KV("data", <<"1">>)>>)

IntervalDirs ==
    {[p \in Paths |-> IF p = "a.mm" THEN IntervalMm(n \o u) ELSE Absent] :
        n \in Numbers, u \in Suffixes}

IntervalInit == StoreInit /\ MonitorInit(IntervalDirs) /\ AgentInit

IntervalSpec == IntervalInit /\ [][ParseNext]_vars

(***************************************************************************)
(* StartupSpec: main from its first statement, with or without a token,    *)
(* the collector answering the configuration request and the heartbeats    *)
(* with every kind of list; of the background, the tickers of main and     *)
(* the dispatches it launched.                                             *)
(***************************************************************************)
StartupNext ==
    \/ ParseFlags
    \/ \E present \in BOOLEAN : CheckToken(present)
    \/ StartCollector
    \/ \E o \in ConfOutcomes, sent \in SentLists : FetchConfig(o, sent)
    \/ NewTickers
    \/ MainStartMonitor
    \/ StartPorts
    \/ \E cpuRun \in AgentRuns, memRun \in AgentRuns : MainStartupCollect(cpuRun, memRun)
    \/ \E o \in HbOutcomes : Heartbeat(o, NothingSent)
    \/ \E sent \in SentLists : Heartbeat("ok", sent)
    \/ \E k \in Tickers : Poll(k)
    \/ PollDefault
    \/ Sleep
    \/ \E k \in Tickers : Tick(k)
    \/ \E k \in Kinds : DispatchReturn(k)

StartupSpec == LoopInit /\ [][StartupNext]_vars

(***************************************************************************)
(* TimedSpec: main and the goroutines it launched, with the time the       *)
(* waits of its loop take.                                                 *)
(***************************************************************************)
\* main from its first statement to its loop
BootNext ==
    \/ ParseFlags
    \/ CheckToken(TRUE)
    \/ StartCollector
    \/ FetchConfig("noconf", NothingSent)
    \/ NewTickers
    \/ MainStartMonitor
    \/ StartPorts
    \/ \E cpuRun \in AgentRuns, memRun \in AgentRuns : MainStartupCollect(cpuRun, memRun)

TimedNext ==
    \/ BootNext
    \/ \E o \in HbUnsent : RequestFailure(o)
    \/ SendHeartbeat
    \/ \E o \in HbSent : Respond(o)
    \/ \E k \in Tickers : TimedPoll(k)
    \/ TimedPollDefault
    \/ WakeUp
    \/ TimePasses
    \/ \E k \in Tickers : Tick(k)
    \/ \E k \in Kinds : DispatchReturn(k)
    \/ MonitorTick

TimedSpec == LoopInit /\ [][TimedNext]_vars

(***************************************************************************)
(* RetrySpec: main and the goroutines it launched, a minute passing in a   *)
(* sleep of main, every dispatch succeeding or failing.                    *)
(***************************************************************************)
\* time passes while main sleeps
RetryWait == mpc = "sleep" /\ AdvanceTime(MinAlertInterval, MaxLoopMinutes * MinAlertInterval)

RetryNext ==
    \/ BootNext
    \/ Heartbeat("ok", NothingSent)
    \/ \E k \in Tickers : Poll(k)
    \/ PollDefault
    \/ Sleep
    \/ \E k \in Tickers : Tick(k)
    \/ \E k \in Kinds : DispatchReturn(k)
    \/ \E f \in Failures : DispatchFailed(f[1], f[2])
    \/ MonitorTick
    \/ RetryWait

RetrySpec == LoopInit /\ [][RetryNext]_vars

(***************************************************************************)
(* NetSpec: main from its first statement through the turns of its loop,   *)
(* GetNetStats returning any reading, the heartbeat of a turn accepted,    *)
(* answered "tomany" or failing.                                           *)
(***************************************************************************)
NetOutcomes == {"ok", "tomany", "transport_error"}

NetNext ==
    \/ ParseFlags
    \/ CheckToken(TRUE)
    \/ StartCollector
    \/ FetchConfig("noconf", NothingSent)
    \/ \E initial \in Readings : NewTickersAfterNetStats(initial)
    \/ MainStartMonitor
    \/ StartPorts
    \/ \E r \in AgentRuns : MainStartupCollect(r, r)
    \/ \E o \in NetOutcomes, now \in Readings : HeartbeatWithNetStats(o, now)
    \/ PollDefault
    \/ Sleep

NetSpec == LoopInit /\ [][NetNext]_vars

(***************************************************************************)
(* StopSpec: main and the alert monitor it started, Stop called on the     *)
(* monitor at any moment.  StopLiveSpec: every goroutine keeps running,    *)
(* and the select of monitorAlerts, which takes one of its ready cases at  *)
(* random, takes the stop case in the end.                                 *)
(***************************************************************************)
StopNext ==
    \/ MainNext
    \/ \E k \in Tickers : Tick(k)
    \/ \E k \in Kinds : DispatchReturn(k)
    \/ MonitorTick
    \/ Stop
    \/ StopReceive

StopSpec == LoopInit /\ [][StopNext]_vars

StopLiveSpec ==
    /\ StopSpec
    /\ WF_vars(StopReceive)

(***************************************************************************)
(* DispatchSpec: the three dispatch functions called again and again,      *)
(* side by side, the collector answering with any status or not at all.    *)
(***************************************************************************)
DispatchInit == StoreInit /\ MonitorInit(NoAlertDirs) /\ AgentInit

DispatchSpec == DispatchInit /\ [][DispatchNext]_vars

(***************************************************************************)
(* EndpointSpec: the endpoint check of main on every kind of endpoint      *)
(* string, every dial connecting or not.                                   *)
(***************************************************************************)
EndpointSpecInit ==
    StoreInit /\ MonitorInit(NoAlertDirs) /\ MainInit /\ EndpointInit(Endpoints)

EndpointSpec == EndpointSpecInit /\ [][EndpointNext]_vars

(***************************************************************************)
(* Claims about the shared sample store.                                   *)
(***************************************************************************)
\* the step of task s in which GetProcessesJSON(m) returns
GetReturns(s, m) == spc[s] = m \o "_get" /\ spc'[s] # spc[s]

\* C1: every table a GetProcessesJSON call returned is the table stored by one
\* CollectProcesses call that had completed (released the mutex) when it was
\* read; a reader never sees the store between the two writes of a collection.
C1_ReadsCompletedCollections ==
    \A s \in Senders, m \in Metrics :
        sloc[s][m].cid # 0 => sloc[s][m].cid \in completed

C1_Witness ==
    \E s \in Senders : sloc[s]["cpu"].cid = 1 /\ sloc[s]["mem"].cid = 2

\* the step in which the CollectProcesses call of task t returns an error
FailingReturn(t) ==
    /\ cpc'[t] = "idle"
    /\ cloc'[t].err # "none"
    /\ \/ cpc[t] = "mem"
       \/ cpc[t] = "idle" /\ nextCid' # nextCid

\* C2: a CollectProcesses call that returns an error (CPU query failed, or
\* memory query failed after the CPU query succeeded) has written neither
\* table, and its return leaves both tables as they are.
C2_FailedCollectLeavesStore ==
    [][\A t \in Collectors :
          FailingReturn(t) =>
              /\ cloc[t].writes = 0
              /\ topCPUProcesses' = topCPUProcesses
              /\ topMemProcesses' = topMemProcesses]_vars

C2_Witness ==
    \E t \in Collectors :
        /\ cloc[t].err = "mem"
        /\ cpc[t] = "idle"
        /\ topCPUProcesses.rows # <<>>
        /\ topMemProcesses.rows # <<>>

\* C3 as stated: GetProcessesJSON returns the no-data error only if no
\* CollectProcesses call has succeeded yet.
C3_NoDataOnlyBeforeFirstCollect ==
    [][\A s \in Senders, m \in Metrics :
          (GetReturns(s, m) /\ sloc'[s][m].got = "nodata") => completed = {}]_vars

\* C3 amended: GetProcessesJSON(m) returns the no-data error exactly when the
\* last write to the table of m left it empty: nothing was stored yet,
\* ClearProcessData ran after the last collection, or the last collection
\* read no row.
C3_NoDataIffLastWriteLeftEmpty ==
    [][\A s \in Senders, m \in Metrics :
          GetReturns(s, m) =>
              (sloc'[s][m].got = "nodata" <=> lastWrite[m] # "rows")]_vars

C3_Witness ==
    \E s \in Senders :
        /\ sloc[s]["cpu"].got = "nodata"
        /\ lastWrite["cpu"] = "clear"
        /\ completed # {}

\* ClearProcessData has been entered by task s
ClearInvoked(s) == spc[s] = "clear_mem"

\* C4 as stated: ClearProcessData is invoked only after both process events
\* were dispatched with a 2xx response.
C4_ClearOnlyAfterSuccess ==
    \A s \in Senders :
        ClearInvoked(s) =>
            sloc[s]["cpu"].got = "status_2xx" /\ sloc[s]["mem"].got = "status_2xx"

\* C4 amended: sendProcessesEvents invokes ClearProcessData once both
\* sendProcessesEvent calls have returned, whatever their outcome (no data,
\* transport error, 2xx or another status).
C4_ClearAfterBothEventsReturned ==
    \A s \in Senders :
        spc[s] \in {"clear", "clear_mem"} =>
            \A m \in Metrics :
                sloc[s][m].got \in {"nodata"} \cup HttpOutcomes

C4_Witness ==
    \E s \in Senders :
        /\ ClearInvoked(s)
        /\ sloc[s]["cpu"].got = "status_other"
        /\ sloc[s]["mem"].got = "transport_error"
        /\ topCPUProcesses = NilTable

RowVals(rows) == [i \in 1..Len(rows) |-> rows[i].val]

\* C5: whatever sorted output the provider gives (malformed lines included),
\* a table GetProcessesJSON returns has at most topN rows, in descending
\* order of the metric.
C5_TablesSortedAndBounded ==
    \A m \in Metrics :
        LET r == GetProcessesJSON(m) IN
            ~r.err => Len(r.table.rows) <= TopN /\ Descending(RowVals(r.table.rows))

C5_Witness ==
    \E s \in Senders :
        /\ sloc[s]["cpu"].got = "read"
        /\ sloc[s]["cpu"].cid = topCPUProcesses.cid
        /\ Len(topCPUProcesses.rows) = TopN
        /\ topCPUProcesses.rows[1].val > topCPUProcesses.rows[TopN].val

(***************************************************************************)
(* Claims about the alert definitions and their schedule.                  *)
(***************************************************************************)
OneMinute == 60 * 1000

\* loadAlerts has returned to Start
LoadDone == apc \in {"sendAll", "wait"}

HasKey(f, k) == \E i \in 1..Len(f.lines) : f.lines[i].kind = "kv" /\ f.lines[i].key = k

IntervalsOf(f) ==
    {f.lines[i].val : i \in {j \in 1..Len(f.lines) :
                                f.lines[j].kind = "kv" /\ f.lines[j].key = "interval"}}

\* what the interval texts of FileLines ask for, in milliseconds
Meant(t) ==
    CASE t = <<"5", "m">> -> [ok |-> TRUE, ms |-> 5 * OneMinute]
      [] t = <<"3", "0", "s">> -> [ok |-> TRUE, ms |-> 30 * 1000]
      [] t = <<"0", "s">> -> [ok |-> TRUE, ms |-> 0]
      [] t = <<"-", "5", "s">> -> [ok |-> TRUE, ms |-> 0 - 5 * 1000]
      [] OTHER -> [ok |-> FALSE, ms |-> 0]

\* a file with the three keys whose interval lines all ask for less than a minute
AsksBelowMinute(f) ==
    /\ f.exists
    /\ HasKey(f, "name") /\ HasKey(f, "interval") /\ HasKey(f, "data")
    /\ \A t \in IntervalsOf(f) : Meant(t).ok /\ Meant(t).ms < OneMinute

\* C6: every alert parseAlertFile produces and every entry of the alert table
\* has Interval >= 1 minute, and a file whose interval asks for less than a
\* minute (zero and negative included) is loaded, with Interval exactly 1 minute
C6_IntervalAtLeastOneMinute ==
    /\ \A p \in DOMAIN newAlerts : newAlerts[p].Interval >= OneMinute
    /\ \A p \in DOMAIN alerts : alerts[p].Interval >= OneMinute
    /\ LoadDone =>
          \A p \in Paths :
              AsksBelowMinute(dir[p]) => p \in DOMAIN alerts /\ alerts[p].Interval = OneMinute

C6_Witness ==
    /\ LoadDone
    /\ \E p \in Paths :
          /\ AsksBelowMinute(dir[p])
          /\ IntervalsOf(dir[p]) = {<<"-", "5", "s">>}
          /\ p \in DOMAIN alerts
          /\ alerts[p].Interval = OneMinute

\* a file without a name, an interval or a data line
LacksKey(f) == f.exists /\ ~(HasKey(f, "name") /\ HasKey(f, "interval") /\ HasKey(f, "data"))

\* a file with the three keys and interval lines that all name a duration
WellFormed(f) ==
    /\ f.exists
    /\ HasKey(f, "name") /\ HasKey(f, "interval") /\ HasKey(f, "data")
    /\ \A t \in IntervalsOf(f) : Meant(t).ok

\* C7: for a file that lacks one of the keys name, interval, data,
\* parseAlertFile returns an error and loadAlerts adds no entry for its path,
\* and every valid file of the directory is in the table after the same reload
C7_FileLackingKeyIsSkipped ==
    /\ \A p \in Paths :
          LacksKey(dir[p]) =>
              /\ parseAlertFile(p, dir[p]).err # "none"
              /\ p \notin DOMAIN newAlerts
              /\ p \notin DOMAIN alerts
    /\ LoadDone =>
          \A q \in Paths : (WellFormed(dir[q]) \/ dir[q] = CpuMm) => q \in DOMAIN alerts

C7_Witness ==
    /\ LoadDone
    /\ LacksKey(dir["a.mm"])
    /\ "a.mm" \notin DOMAIN alerts
    /\ dir["cpu.mm"] = CpuMm
    /\ "cpu.mm" \in DOMAIN alerts

\* loadAlerts swaps the table in and returns
SwapStep == apc = "parse" /\ files = <<>> /\ apc' # "parse"

\* C8: a reload that finds the files as the reload before it left them (no
\* file written, replaced or removed since that reload began) leaves the
\* table as it was, every entry with the LastSent it had
C8_ReloadOfUnchangedFilesKeepsTable ==
    [][(SwapStep /\ cleanLoads >= 1 /\ ~editedSinceGlob) => alerts' = alerts]_vars

C8_Witness ==
    /\ cleanLoads = 2
    /\ apc = "check"
    /\ \E p \in DOMAIN alerts : alerts[p].LastSent # ZeroTime /\ alerts[p].LastSent < clock

\* the step dispatches the alert of path p
Dispatched(p) == sentCount'[p] = sentCount[p] + 1

\* C9 (as stated): an alert dispatched at t1 is not dispatched again at a
\* time t2 < t1 + interval, whatever reloads happen in between
C9_NoDispatchBeforeInterval ==
    [][\A p \in Paths :
          (Dispatched(p) /\ lastDispatch[p] # ZeroTime)
              => clock - lastDispatch[p] >= alerts[p].Interval]_vars

\* C9 (amended): an alert dispatched at t1 is not dispatched again at a time
\* t2 < t1 + interval, provided every reload in between loaded its file (its
\* path stayed in the table)
C9_NoDispatchBeforeIntervalWhileLoaded ==
    [][\A p \in Paths :
          (Dispatched(p) /\ lastDispatch[p] # ZeroTime /\ ~dropped[p])
              => clock - lastDispatch[p] >= alerts[p].Interval]_vars

C9_Witness ==
    /\ \E p \in DOMAIN alerts :
          /\ sentCount[p] >= 2
          /\ ~dropped[p]
          /\ lastDispatch[p] = clock
    /\ \E q \in DOMAIN alerts :
          /\ alerts[q].Interval = 5 * OneMinute
          /\ sentCount[q] = 2
          /\ lastDispatch[q] = 5 * OneMinute
    /\ apc = "wait"

\* the age of the scenario's definition, and its dispatches so far
Created == createdAt["cpu.mm"] # ZeroTime
Age == clock - createdAt["cpu.mm"]
Sent == sentCount["cpu.mm"]

StampKept ==
    \A p \in DOMAIN alerts : lastDispatch[p] # ZeroTime => alerts[p].LastSent = lastDispatch[p]

\* C11: with a reload running concurrently with the checks, the stamp a
\* check writes is never lost to the table the reload swaps in, and no
\* alert is dispatched again before its interval has passed
C11_NoDoubleDispatchUnderRace ==
    [][/\ StampKept'
       /\ \A p \in Paths :
             (Dispatched(p) /\ lastDispatch[p] # ZeroTime)
                 => clock - lastDispatch[p] >= alerts[p].Interval]_vars

(***************************************************************************)
(* Claims about the loop of main and about its startup.                    *)
(***************************************************************************)
\* C12: in every turn of the loop of main, whatever the outcome of the
\* turn's heartbeat request, every slow ticker that holds a tick when the
\* turn polls the tickers has its dispatch launched in that same turn.
C12_EveryDueTimerDispatchedInItsTurn ==
    mpc = "sleep" => dueAtPoll \subseteq launched

\* C13: while the heartbeat requests keep failing, a tick of portsTicker or
\* of processesTicker is still followed by the launch of its dispatch: a
\* tick leads to the launch, or to a heartbeat request that did not fail.
C13_ReportsDispatchedWhileHeartbeatFails ==
    \A k \in Tickers : ticks[k] ~> (k \in launched \/ hb \in {"ok", "tomany"})

\* C16: main and the two scheduler loops do not wait for a dispatch: even
\* when dispatches never return, main begins another turn of its heartbeat
\* loop again and again, and monitorAlerts and collectProcessData handle a
\* tick again and again.
C16_LoopsNeverWaitForDispatch ==
    /\ []<>(mpc = "measure")
    /\ []<>(lastLoop = "monitor")
    /\ []<>(lastLoop = "collector")

\* a turn of the loop begins, and a tick was handled by a background loop,
\* while dispatches of every kind are in flight
C16_Witness ==
    /\ mpc = "measure"
    /\ hb # "none"
    /\ lastLoop # "none"
    /\ \A k \in Kinds : inflight[k] > 0

\* main has done its startup and has not begun its first heartbeat
BeforeFirstHeartbeat == mpc = "measure" /\ hb = "none"

\* C14 as stated: before its first heartbeat main has launched exactly one
\* open-ports dispatch, made one collection and launched exactly one
\* process-stat dispatch.
C14_StartupDispatchesOnce ==
    BeforeFirstHeartbeat =>
        (boot.ports = 1 /\ boot.collections = 1 /\ boot.processes = 1)

\* C14 (amended): before its first heartbeat main has launched exactly one
\* open-ports dispatch and made one collection, and it has launched exactly
\* one process-stat dispatch if that collection succeeded, none if it failed.
C14_StartupDispatchesOnceIfCollected ==
    BeforeFirstHeartbeat =>
        /\ boot.ports = 1
        /\ boot.collections = 1
        /\ boot.processes = IF boot.err THEN 0 ELSE 1

\* the startup is over, with its process-stat dispatch launched, and no
\* ticker has fired yet
C14_Witness ==
    /\ BeforeFirstHeartbeat
    /\ boot.processes = 1
    /\ \A k \in Tickers : ~ticks[k]

(***************************************************************************)
(* Claims about the dispatch functions.                                    *)
(***************************************************************************)
\* C15: an invocation of a dispatch function issues at most one POST; once
\* it has returned, it has logged success if and only if it got a response
\* with a status in 200..299, and failure otherwise (another status, or no
\* response); it always returns after that one request.
C15_OnePostAndStatusClassified ==
    \A t \in Dispatchers :
        /\ dtask[t].posts <= 1
        /\ dtask[t].pc = "returned" =>
              /\ dtask[t].logged \in {"success", "failure"}
              /\ dtask[t].logged = "success" <=> dtask[t].status \in 200..299

\* one function has logged the success of a 200, another the failure of a
\* 503, the third the failure of a request that got no response
C15_Witness ==
    \E a, b, e \in Dispatchers :
        /\ dtask[a] = [pc |-> "returned", posts |-> 1, status |-> 200, logged |-> "success"]
        /\ dtask[b] = [pc |-> "returned", posts |-> 1, status |-> 503, logged |-> "failure"]
        /\ dtask[e] = [pc |-> "returned", posts |-> 1, status |-> NoStatus, logged |-> "failure"]

(***************************************************************************)
(* Claims about CheckEndpoint.                                             *)
(***************************************************************************)
AllFailed(dials) == \A n \in 1..Len(dials) : ~dials[n]

\* the call made its dials one after the other until one connected
StopsAtFirstConnect ==
    \A n \in 1..Len(ep.dials) - 1 : ~ep.dials[n]

FailedAttempt == ep.pc = "dial" /\ ep'.dials = Append(ep.dials, FALSE)

\* min(2^i, 15)
CappedPower(i) == IF 2^i < 15 THEN 2^i ELSE 15

\* C21 as stated: in one CheckEndpoint probe every failed attempt i (from
\* 0) is followed by a backoff sleep of min(2^i, 15) seconds, and the
\* sleeps of a probe add up to at most 1 + 2 + 4 = 7 seconds.
C21_SleepAfterEveryFailedAttempt ==
    /\ [][FailedAttempt => ep'.pc = "backoff"]_vars
    /\ [][ep.pc = "backoff" => ep'.slept = ep.slept + CappedPower(ep.i)]_vars
    /\ [](ep.slept <= 1 + 2 + 4)

\* C21 (amended): a failed attempt i that is not the last one (i < 2) is
\* followed by a backoff sleep of min(2^i, 15) seconds; the last failed
\* attempt is followed by no sleep; a probe that returns false has slept
\* 1 + 2 = 3 seconds.
C21_SleepAfterFailedAttemptButLast ==
    /\ [][FailedAttempt => (ep'.pc = "backoff" <=> ep.i < 2)]_vars
    /\ [][ep.pc = "backoff" => ep'.slept = ep.slept + CappedPower(ep.i)]_vars
    /\ [][ep.pc # "backoff" => ep'.slept = ep.slept \/ ep'.slept = 0]_vars
    /\ [](ep.pc = "returned" /\ ~ep.result /\ endpoint.parses => ep.slept = 1 + 2)

\* the last attempt of a probe has failed after both backoffs, and the
\* probe is about to return false without a third sleep
C21_Witness ==
    /\ ep.pc = "continue"
    /\ ep.i = 2
    /\ ep.dials = <<FALSE, FALSE, FALSE>>
    /\ ep.slept = 3

\* C22: the probe is run once at startup: every connection attempt made
\* before the heartbeat loop belongs to the first CheckEndpoint call, which
\* makes at most 3 of them, also when the endpoint is unreachable.
C22_AtMostThreeAttemptsAtStartup ==
    /\ Len(ep.dials) <= 3
    /\ calls > 1 => ep.dials = <<>>

(***************************************************************************)
(* Claims about the supervisor.                                            *)
(***************************************************************************)
\* C17: after every panic in main that its deferred function recovered,
\* main is started again and reaches its heartbeat loop (unless the process
\* has ended meanwhile).
C17_RestartReachesLoop ==
    (mpc = "recover" /\ Running) ~> (mpc = "measure" \/ ~Running)

\* main() was called again by the deferred function and is at its first
\* statement
Restarted == mpc = "flags" /\ restarts >= 1

\* C18: when main was started again, the store holds no table from before
\* the panic, no alert carries a LastSent from before it, and no custom
\* configuration is in use.
C18_FreshStateAfterRestart ==
    Restarted =>
        /\ \A m \in Metrics : ~stale[m]
        /\ \A p \in DOMAIN alerts : alerts[p].LastSent = ZeroTime
        /\ \A l \in Lists : config[l] \notin {"custom", "empty"}

\* C19: no panic in a goroutine other than main ends the process.
C19_BackgroundFaultNeverEndsProcess ==
    process \notin Background

(***************************************************************************)
(* Claims about the startup of main and its configuration.                 *)
(***************************************************************************)
\* C23: a configuration response {"message":"noconf"} leaves the disk list
\* and the service list at their defaults, whatever else it carries.
C23_NoconfLeavesDefaults ==
    [][mpc = "config" /\ boot'.conf = "noconf" => config' = Defaults]_vars

\* main got "noconf" and is on its way to the loop with the default lists
C23_Witness ==
    /\ boot.conf = "noconf"
    /\ mpc = "endpoint"
    /\ config = Defaults

\* C24: a list in use is replaced by a response only with a non-empty list:
\* it is the default or a non-empty list of the collector, never empty.
C24_ListsNeverEmpty ==
    \A l \in Lists : config[l] \in {"unset", "default", "custom"}

\* C26: when the token is absent the agent exits with status 1 before any
\* loop: no collector, no alert monitor, no dispatch has been started, and
\* no configuration request and no heartbeat has been sent.
C26_ExitBeforeAnyTask ==
    process = "exit1" =>
        /\ mpc = "token"
        /\ collectors = 0
        /\ monitors = 0
        /\ \A k \in Kinds : inflight[k] = 0
        /\ boot = NoBoot
        /\ hb = "none"
        /\ config = NoLists
        /\ lastLoop = "none"

\* the agent has exited for want of a token
C26_Witness ==
    /\ process = "exit1"
    /\ flagsDefined
    /\ collectors = 0
(***************************************************************************)
(* Claims about the waits of main and the stop of the monitor.             *)
(***************************************************************************)
\* main is in the sleep that follows a "tomany" answer
InTomanyWindow == mpc = "sleep" /\ hb = "tomany" /\ clock < wakeAt

\* C25: after a heartbeat response "tomany" the next heartbeat cycle begins
\* no sooner than 60 seconds later, and during these 60 seconds the agent
\* sends no request: main sends none and no alert is dispatched.
C25_NoRequestForSixtySeconds ==
    /\ [][mpc = "request" /\ hb' = "tomany" => wakeAt' = clock + 60000]_vars
    /\ [][hb = "tomany" /\ mpc = "sleep" /\ mpc' # "sleep" => clock >= wakeAt]_vars
    /\ [][InTomanyWindow => /\ mpc' = "sleep"
                            /\ alerts' = alerts
                            /\ \A k \in Kinds : inflight'[k] <= inflight[k]]_vars

\* C29: the loop of main blocks only in its sleep: whenever time passes,
\* main is in the sleep of its turn, never in a request to the collector.
C29_MainWaitsOnlyInItsSleep ==
    [][clock' > clock => mpc = "sleep"]_vars
\* Stop was called and monitorAlerts has returned
Stopped == stopChan = "closed" /\ monitors = 0

\* C27: after Stop on a started AlertMonitor, monitorAlerts terminates; once
\* it has terminated no checkAlerts cycle runs and no alert is dispatched
\* by that monitor any more.
C27_StopEndsMonitor ==
    /\ (stopChan = "closed" /\ monitors > 0) ~> Stopped
    /\ [][Stopped => /\ alerts' = alerts
                     /\ inflight'["alert"] <= inflight["alert"]
                     /\ lastLoop' = "monitor" => lastLoop = "monitor"
                     /\ Stopped']_vars

\* monitorAlerts has returned after at least one checkAlerts cycle, while
\* main goes on with its loop
C27_Witness ==
    /\ Stopped
    /\ lastLoop = "monitor"
    /\ mpc = "sleep"
(***************************************************************************)
(* Claims about the interval texts.                                        *)
(***************************************************************************)
\* the number a text of digits writes
RECURSIVE Decimal(_)
Decimal(ds) ==
    IF ds = <<>> THEN 0 ELSE 10 * Decimal(SubSeq(ds, 1, Len(ds) - 1)) + DigitVal(ds[Len(ds)])

\* the milliseconds of one unit
UnitOf(u) ==
    CASE u = <<"m", "s">> -> 1
      [] u = <<"s">> -> 1000
      [] u = <<"m">> -> 60000
      [] u \in {<<"h">>, <<"h", "r">>, <<"h", "r", "s">>} -> 3600000
      [] u = <<"d">> -> 24 * 3600000

Parses(p) == parseAlertFile(p, dir[p]).err = "none"

\* loadAlerts handles the next file of its list
ParseStep == apc = "parse" /\ files # <<>> /\ files' = Tail(files)

\* C30: after every completed loadAlerts the keys of the alert table are
\* exactly the *.mm paths that parsed during that reload: a file gets its
\* entry, keyed by its path, exactly when it parses as the reload reads it;
\* the table swapped in holds these entries and no other, so that with no
\* file written during the reload its keys are the valid files of the
\* directory and the entries of deleted or invalid files are gone.
C30_TableIsWhatTheReloadParsed ==
    /\ [][ParseStep => /\ (Head(files) \in DOMAIN newAlerts' <=> Parses(Head(files)))
                       /\ \A p \in Paths \ {Head(files)} :
                              p \in DOMAIN newAlerts' <=> p \in DOMAIN newAlerts]_vars
    /\ [][SwapStep => /\ DOMAIN alerts' = DOMAIN newAlerts
                      /\ \A p \in DOMAIN alerts' : alerts'[p].Path = p
                      /\ ~editedSinceGlob => DOMAIN alerts' = {p \in Paths : Parses(p)}]_vars

\* a reload has removed the entry of a.mm, dispatched before and deleted
\* since, and kept the entry of cpu.mm
C30_Witness ==
    /\ apc = "wait"
    /\ dropped["a.mm"]
    /\ ~dir["a.mm"].exists
    /\ ~editedSinceGlob
    /\ DOMAIN alerts = {"cpu.mm"}

(***************************************************************************)
(* Claims about the order of reload and due test in a check cycle.         *)
(***************************************************************************)
\* checkAlerts runs its loop over the table, after its reload
CheckStep == apc = "check" /\ apc' = "wait"

\* C31: in every check cycle the reload is complete before the due test.
\* With the directory as the cycle found it (no file written since its
\* Glob), the cycle dispatches no alert whose file is gone, in this cycle
\* and in every later one that finds it gone, and every file that parses
\* has its entry in the table and is dispatched exactly when it is due.
C31_ReloadBeforeDueSelection ==
    [][(CheckStep /\ ~editedSinceGlob) =>
          \A p \in Paths :
             /\ ~dir[p].exists => sentCount'[p] = sentCount[p]
             /\ Parses(p) => /\ p \in DOMAIN alerts
                             /\ Due(alerts[p], clock) <=> Dispatched(p)]_vars

\* the check of the first minute has run on a directory where a.mm, sent at
\* startup, was deleted and cpu.mm was added: a.mm was not dispatched again
\* and cpu.mm was dispatched for the first time
C31_Witness ==
    /\ apc = "wait"
    /\ ~editedSinceGlob
    /\ clock = MinAlertInterval
    /\ ~dir["a.mm"].exists
    /\ lastDispatch["a.mm"] = 0
    /\ dir["cpu.mm"] = CpuMm
    /\ sentCount["cpu.mm"] = 1
    /\ lastDispatch["cpu.mm"] = clock

(***************************************************************************)
(* Claims about renamed alert files.                                       *)
(***************************************************************************)
\* the file at path q came there by a rename between the cycle before and
\* this one
RenamedTo(q) == clock - MinAlertInterval < createdAt[q] /\ createdAt[q] < clock

\* C32 (as stated): the first check cycle after a rename finds the entry of
\* the new path with LastSent unset and dispatches it, however recently the
\* alert was sent under the old path
C32_RenamedAlertDispatchedAtNextCheck ==
    [][(CheckStep /\ ~editedSinceGlob) =>
          \A q \in Paths :
             (Parses(q) /\ RenamedTo(q)) => Dispatched(q)]_vars

\* C32 (amended): the first check cycle after a rename dispatches the entry
\* of the new path, however recently the alert was sent under the old path,
\* provided the table this reload replaced had no entry under the new path;
\* an entry it had hands its LastSent on to the renamed file
C32_RenamedAlertDispatchedUnlessPathKnown ==
    /\ [][(SwapStep /\ ~editedSinceGlob) =>
            \A q \in Paths :
               (Parses(q) /\ RenamedTo(q)) =>
                   alerts'[q].LastSent =
                       IF q \in DOMAIN lastSentTimes THEN lastSentTimes[q] ELSE ZeroTime]_vars
    /\ [][(CheckStep /\ ~editedSinceGlob) =>
            \A q \in Paths :
               (Parses(q) /\ RenamedTo(q) /\ q \notin DOMAIN lastSentTimes) =>
                   Dispatched(q)]_vars

\* cpu.mm, sent at startup with its interval of five minutes, was renamed
\* to a.mm half a minute later; the check of the first minute has
\* dispatched it under its new path
C32_Witness ==
    /\ apc = "wait"
    /\ clock = MinAlertInterval
    /\ lastDispatch["cpu.mm"] = 0
    /\ ~dir["cpu.mm"].exists
    /\ dir["a.mm"] = CpuMm
    /\ createdAt["a.mm"] = TimeStep
    /\ "a.mm" \in DOMAIN alerts
    /\ alerts["a.mm"].Interval = 5 * OneMinute
    /\ sentCount["a.mm"] = 1
    /\ lastDispatch["a.mm"] = clock

(***************************************************************************)
(* Claims about failed dispatches.                                         *)
(***************************************************************************)
\* a dispatch fails in this step
FailStep == \E f \in Failures : DispatchFailed(f[1], f[2])

\* the step stamps the alert of path p, which it does when it dispatches it
StampedNow(p) ==
    /\ p \in DOMAIN alerts'
    /\ alerts'[p].LastSent # (IF p \in DOMAIN alerts THEN alerts[p].LastSent ELSE ZeroTime)

\* the step launches a dispatch of the report of ticker k
LaunchedNow(k) == inflight'[k] > inflight[k] \/ (k \in launched' /\ launched' # launched)

\* C33: nothing is retried.  A dispatch that fails launches nothing and
\* leaves the alert table and the ticks as they are, so that the alert keeps
\* the stamp of its cycle; an alert is dispatched, at startup or at a check
\* at which now - LastSent >= Interval, and at no other step; a report of a
\* slow ticker is dispatched at startup or by the select that takes the
\* tick of its ticker, and at no other step.
C33_NoRetryOfFailedDispatch ==
    [][/\ FailStep => /\ alerts' = alerts
                      /\ ticks' = ticks
                      /\ launched' = launched
                      /\ \A k \in Kinds : inflight'[k] <= inflight[k]
       /\ \A p \in Paths :
              StampedNow(p) => /\ alerts'[p].LastSent = clock
                               /\ mpc = "monitor" \/ (p \in DOMAIN alerts /\ Due(alerts[p], clock))
       /\ inflight'["alert"] > inflight["alert"] => \E p \in Paths : StampedNow(p)
       /\ \A k \in Tickers :
              LaunchedNow(k) => \/ mpc = "poll" /\ ticks[k] /\ ~ticks'[k]
                                \/ mpc \in {"ports", "collect"}]_vars

\* the dispatch of an alert has failed; a.mm, due every minute, was sent
\* again by the check of the first minute and cpu.mm keeps the stamp of
\* startup; the dispatch of the open ports has failed and no other is in
\* flight
C33_Witness ==
    /\ dtask["sendAlert"].logged = "failure"
    /\ dtask["sendOpenPortsEvent"].logged = "failure"
    /\ inflight["ports"] = 0
    /\ clock = MinAlertInterval
    /\ "a.mm" \in DOMAIN alerts /\ alerts["a.mm"].LastSent = MinAlertInterval
    /\ "cpu.mm" \in DOMAIN alerts /\ alerts["cpu.mm"].LastSent = 0

(***************************************************************************)
(* Claims about the traffic counters of the heartbeat.                     *)
(***************************************************************************)
\* main builds the mesure of a turn
MeasureStep == mpc = "measure" /\ mpc' # "measure"

\* C34: in every heartbeat UploadInterval (DownloadInterval) is the Upload
\* (Download) counter read in this turn minus the one read in the turn
\* before it (before the first turn: at startup), whatever the request of
\* the turn before gave
C34_IntervalSincePrecedingCycle ==
    [][MeasureStep => /\ net'.UploadInterval = Minus(net'.Upload, net.Upload)
                      /\ net'.DownloadInterval = Minus(net'.Download, net.Download)]_vars

\* C39: the subtraction never underflows: in every heartbeat the reported
\* interval is at most the counter read in the turn, also when that reading
\* is lower than the one kept in oldUpload (oldDownload)
C39_IntervalAtMostCounter ==
    /\ net.UploadInterval <= net.Upload
    /\ net.DownloadInterval <= net.Download

(***************************************************************************)
(* Claims about one sendProcessesEvents run next to the collector.         *)
(***************************************************************************)
\* C35: within one sendProcessesEvents run the CPU table and the memory
\* table that are sent come from the same CollectProcesses call, also when
\* a collection is stored during the run
C35_BothTablesOfOneCollection ==
    \A s \in Senders :
        (sloc[s].cpu.cid # 0 /\ sloc[s].mem.cid # 0) => sloc[s].cpu.cid = sloc[s].mem.cid

\* sender s runs the two assignments of ClearProcessData
ClearsCPU(s) == spc[s] = "clear" /\ spc'[s] = "clear_mem"
ClearsMem(s) == spc[s] = "clear_mem" /\ spc'[s] = "off"

\* C36: ClearProcessData at the end of a sendProcessesEvents run discards
\* only tables this run has read (a table with rows that it sets to nil is
\* the one its GetProcessesJSON returned): the tables of a collection that
\* completed during the run are still in the store after the run
C36_ClearDiscardsOnlyWhatWasRead ==
    [][\A s \in Senders :
          /\ ClearsCPU(s) => \/ topCPUProcesses.rows = <<>>
                              \/ topCPUProcesses.cid = sloc[s].cpu.cid
          /\ ClearsMem(s) => \/ topMemProcesses.rows = <<>>
                              \/ topMemProcesses.cid = sloc[s].mem.cid]_vars

(***************************************************************************)
(* Claims about the background loops across restarts.                      *)
(***************************************************************************)
\* C37: at every moment at most one collectProcessData goroutine and at
\* most one monitorAlerts goroutine are running, after any number of calls
\* of main() by the deferred function: no call of main after the first
\* starts background loops next to those of an earlier call
C37_OneCollectorOneMonitor ==
    /\ collectors <= 1
    /\ monitors <= 1

\* the deferred function has called main() again as often as is told
\* apart, and the loops of the first call are running
C37_Witness ==
    /\ Running
    /\ restarts = MaxRestarts
    /\ collectors = 1
    /\ monitors = 1

(***************************************************************************)
(* TickSpec: main and its two slow tickers alone, every answer to the      *)
(* heartbeat possible, a dispatch returning at any moment or never.        *)
(* TickLiveSpec: main keeps taking its steps, and the select, which picks  *)
(* among its ready cases at random, does not pass a ready case over for    *)
(* ever.                                                                   *)
(***************************************************************************)
TickMain ==
    \/ BootNext
    \/ \E o \in HbOutcomes : Heartbeat(o, NothingSent)
    \/ \E k \in Tickers : Poll(k)
    \/ PollDefault
    \/ Sleep

TickNext ==
    \/ TickMain
    \/ \E k \in Tickers : Tick(k)
    \/ \E k \in Tickers : DispatchReturn(k)

TickSpec == LoopInit /\ [][TickNext]_vars

TickLiveSpec ==
    /\ TickSpec
    /\ WF_vars(TickMain)
    /\ \A k \in Tickers : SF_vars(Poll(k))

(***************************************************************************)
(* Claims about ticks of the two slow tickers that wait together.          *)
(***************************************************************************)
\* both slow tickers hold a tick
BothDue == \A k \in Tickers : ticks[k]

\* C38: when portsTicker and processesTicker hold a tick at the same time,
\* the dispatch of each of the two is launched in the end, provided main
\* reaches the select of its loop again and again (its heartbeats keep
\* being answered, and not with "tomany")
C38_BothDueBothLaunched ==
    []<>(mpc = "poll") => \A k \in Tickers : BothDue ~> (k \in launched)

\* a turn found both tickers due and launched the dispatch of one; the
\* tick of the other waits in its channel
C38_Witness ==
    /\ mpc = "sleep"
    /\ hb = "ok"
    /\ dueAtPoll = Tickers
    /\ \E k \in Tickers : launched = {k} /\ ~ticks[k]
    /\ \E j \in Tickers : j \notin launched /\ ticks[j]

====
